---- MODULE Spec2Model ----
(***************************************************************************)
(* A model of the rss_r server: the registry of per-user feed collections  *)
(* (src/src/rss_collection.rs), the background refresh worker              *)
(* (src/src/main.rs), the feed requester (src/src/feed_requester.rs) and   *)
(* the session authentication (src/src/auth.rs, auth_middleware.rs), and   *)
(* the snapshots of the registry (src/src/persistence.rs, main.rs).        *)
(*                                                                         *)
(* Text values that the code concatenates or orders (entry titles, entry   *)
(* links, entry keys) are sequences of small naturals ("bytes"); text that *)
(* is only compared for equality (feed urls, feed names, tags, user names, *)
(* passwords, error messages) is a TLA+ string.                            *)
(***************************************************************************)
EXTENDS Integers, Sequences, FiniteSets, TLC

\* ------------------------------------------------------------------ bounds

\* How many operations one behaviour starts: HTTP requests received and ticks
\* of the background refresh worker.
MaxOps == 2
\* The longest list of entries an upstream document holds.
MaxItems == 1
\* The largest `amount` a /feeds request asks for.
MaxAmount == 2
\* How many ticks of the snapshot worker one behaviour has.
MaxTicks == 3

\* ------------------------------------------------------------ value shapes

\* Option<T>: None and Some(x).  `v` of None is a filler of the same type.
NoneStr == [some |-> FALSE, v |-> << >>]
SomeStr(s) == [some |-> TRUE, v |-> s]
NoneDate == [some |-> FALSE, v |-> 0]
SomeDate(d) == [some |-> TRUE, v |-> d]

\* Result<(), String> of FeedInfo.last_update_result.
Ok == [ok |-> TRUE, err |-> ""]
Err(msg) == [ok |-> FALSE, err |-> msg]

\* A map with no key (HashMap::default()).
EmptyMap == [x \in {} |-> x]

\* The bytes of the literal "No title".
NoTitle == <<9>>

\* Utc.ymd(1900, 1, 1).and_hms(1, 1, 1) on the model's time axis, where the
\* dates of dated items are 1, 2, ...
default_date == 0

\* ------------------------------------------------------- entries and keys

\* EntryKey::from_entry that also feeds the publication date to the hasher.
from_entry_with_pub_date(entry) ==
    entry.title \o (IF entry.link.some THEN entry.link.v ELSE << >>) \o <<entry.pub_date>>

\* EntryKey::from_entry: the hash of the title bytes followed by the link
\* bytes (nothing when the link is absent).  The hash is taken as injective,
\* so the key is the byte string that is hashed.
from_entry(entry) ==
    entry.title \o (IF entry.link.some THEN entry.link.v ELSE << >>)

\* FeedEntry::from_raw_feed_entry: the (key, entry) pair of a parsed item.
\* An item is [title: Option, links: Seq, published: Option, updated: Option].
from_raw_feed_entry(item) ==
    LET pub_date == IF item.published.some THEN item.published.v
                    ELSE IF item.updated.some THEN item.updated.v
                    ELSE default_date
        entry == [title |-> IF item.title.some THEN item.title.v ELSE NoTitle,
                  link |-> IF Len(item.links) > 0 THEN SomeStr(item.links[1])
                           ELSE NoneStr,
                  pub_date |-> pub_date,
                  read |-> FALSE]
    IN [key |-> from_entry(entry), entry |-> entry]

\* Iterator::collect into a HashMap: of two pairs with the same key the later
\* one of the sequence stays.
RECURSIVE collect(_)
collect(pairs) ==
    IF pairs = << >> THEN EmptyMap
    ELSE LET n == Len(pairs)
             init == collect(SubSeq(pairs, 1, n - 1))
             last == pairs[n]
         IN [k \in (DOMAIN init) \cup {last.key} |->
                IF k = last.key THEN last.entry ELSE init[k]]

\* -------------------------------------------------------------- the fetcher

\* What an upstream server can answer within the timeout.  An answer is
\* [fails, status, title, entries]: `fails` stands for a transport error, a
\* timeout or a body that does not parse; otherwise the body parses to a
\* document with an optional title and a list of items.  `status` is the HTTP
\* status of the response, 0 when none arrived.
Item(title, links, published, updated) ==
    [title |-> title, links |-> links, published |-> published, updated |-> updated]

Items ==
    { Item(SomeStr(<<1>>), << <<2>> >>, SomeDate(2), NoneDate),
      Item(NoneStr, << >>, NoneDate, NoneDate) }

ItemLists ==
    UNION { { s \in [1..n -> Items] : \A i, j \in 1..n : s[i] = s[j] => i = j }
            : n \in 0..MaxItems }

FailedResponse ==
    [fails |-> TRUE, status |-> 0, title |-> [some |-> FALSE, v |-> ""], entries |-> << >>]

\* Responses with the status 500 Internal Server Error: one whose body is no
\* feed document, and one whose body is a feed document with one item.
ErrorStatusResponses ==
    { [fails |-> TRUE, status |-> 500, title |-> [some |-> FALSE, v |-> ""], entries |-> << >>],
      [fails |-> FALSE, status |-> 500, title |-> [some |-> TRUE, v |-> "News"],
       entries |-> << Item(NoneStr, << >>, NoneDate, NoneDate) >>] }

Responses ==
    {FailedResponse}
    \cup { [fails |-> FALSE, status |-> 200, title |-> [some |-> TRUE, v |-> "News"],
            entries |-> s] : s \in ItemLists }
    \cup { [fails |-> FALSE, status |-> 200, title |-> [some |-> FALSE, v |-> ""],
            entries |-> << >>] }
    \cup ErrorStatusResponses

\* The text of the error a failed download carries (error.to_string()).
FetchErrorText == "error sending request"

\* full_error_to_string(&error): the error text followed by its chain of causes.
full_error_to_string(error) == error \o ": operation timed out"

\* FeedRequester::download_feed: Result<Feed, Box<dyn Error>> as
\* [ok, title, entries, error].  The status of the response is not looked
\* at: send() returns the response whatever its status is.
download_feed(response) ==
    IF response.fails
    THEN [ok |-> FALSE, title |-> "", entries |-> EmptyMap, error |-> FetchErrorText]
    ELSE [ok |-> TRUE,
          title |-> IF response.title.some THEN response.title.v ELSE "",
          entries |-> collect([i \in 1..Len(response.entries) |->
                                  from_raw_feed_entry(response.entries[i])]),
          error |-> ""]

\* FeedRequester::request_feeds: one download per url of the set, collected
\* into a map url -> result.  `answers` is what upstream answers for each url.
request_feeds(urls, answers) == [u \in urls |-> download_feed(answers[u])]

\* ----------------------------------------------------------------- one feed

FeedInfo(name, tags, last_update_result) ==
    [name |-> name, tags |-> tags, last_update_result |-> last_update_result]

\* RssFeed::new
RssFeed(info, entries) == [info |-> info, entries |-> entries]

\* Result<FeedEntries, String> as [ok, entries, err].
OkEntries(entries) == [ok |-> TRUE, entries |-> entries, err |-> ""]
ErrEntries(msg) == [ok |-> FALSE, entries |-> EmptyMap, err |-> msg]

\* What request_feed can return: the results of download_feed over the
\* responses of the model.
FeedResults == { download_feed(response) : response \in Responses }

\* maybe_entries of the merge loop of get_feeds: the entries of a fetched
\* feed, or the text of the error of the fetch.
maybe_entries_of(maybe_feed_update) ==
    IF maybe_feed_update.ok THEN OkEntries(maybe_feed_update.entries)
    ELSE ErrEntries(full_error_to_string(maybe_feed_update.error))

\* RssFeed::update_entries with the entry map replaced by the fetched one.
update_entries_replace(feed, maybe_entries) ==
    IF maybe_entries.ok
    THEN [info |-> [feed.info EXCEPT !.last_update_result = Ok],
          entries |-> maybe_entries.entries]
    ELSE [feed EXCEPT !.info.last_update_result = Err(maybe_entries.err)]

\* RssFeed::update_entries with insert in place of entry(key).or_insert: a
\* fetched entry takes the place of the stored one.
update_entries_overwrite(feed, maybe_entries) ==
    IF maybe_entries.ok
    THEN [info |-> [feed.info EXCEPT !.last_update_result = Ok],
          entries |-> [k \in (DOMAIN feed.entries) \cup (DOMAIN maybe_entries.entries) |->
                          IF k \in DOMAIN maybe_entries.entries THEN maybe_entries.entries[k]
                          ELSE feed.entries[k]]]
    ELSE [feed EXCEPT !.info.last_update_result = Err(maybe_entries.err)]

\* RssFeed::update_entries with the Ok branch leaving last_update_result as it
\* was.
update_entries_keeps_result(feed, maybe_entries) ==
    IF maybe_entries.ok
    THEN [info |-> feed.info,
          entries |-> [k \in (DOMAIN feed.entries) \cup (DOMAIN maybe_entries.entries) |->
                          IF k \in DOMAIN feed.entries THEN feed.entries[k]
                          ELSE maybe_entries.entries[k]]]
    ELSE [feed EXCEPT !.info.last_update_result = Err(maybe_entries.err)]

\* update_entries that flips the read flag of every stored entry it observes
\* again.
update_entries_flips_reobserved(feed, maybe_entries) ==
    IF maybe_entries.ok
    THEN [info |-> [feed.info EXCEPT !.last_update_result = Ok],
          entries |-> [k \in (DOMAIN feed.entries) \cup (DOMAIN maybe_entries.entries) |->
                          IF k \in DOMAIN feed.entries
                          THEN (IF k \in DOMAIN maybe_entries.entries
                                THEN [feed.entries[k] EXCEPT !.read = ~@]
                                ELSE feed.entries[k])
                          ELSE maybe_entries.entries[k]]]
    ELSE [feed EXCEPT !.info.last_update_result = Err(maybe_entries.err)]

\* RssFeed::update_entries: entry(key).or_insert(entry) for every fetched
\* entry, then last_update_result = Ok; on an error only last_update_result.
update_entries(feed, maybe_entries) ==
    IF maybe_entries.ok
    THEN [info |-> [feed.info EXCEPT !.last_update_result = Ok],
          entries |-> [k \in (DOMAIN feed.entries) \cup (DOMAIN maybe_entries.entries) |->
                          IF k \in DOMAIN feed.entries THEN feed.entries[k]
                          ELSE maybe_entries.entries[k]]]
    ELSE [feed EXCEPT !.info.last_update_result = Err(maybe_entries.err)]

NoResultText == "Feed update was requested, but the function did not return anything."

\* ----------------------------------------------------------------- the view

\* Ord for byte strings and for Option (None before Some): -1, 0 or 1.
NumCmp(a, b) == IF a < b THEN -1 ELSE IF a > b THEN 1 ELSE 0

StrCmp(a, b) ==
    IF a = b THEN 0
    ELSE IF \E k \in 0..Len(a) :
               /\ k <= Len(b)
               /\ \A i \in 1..k : a[i] = b[i]
               /\ \/ (k = Len(a) /\ k < Len(b))
                  \/ (k < Len(a) /\ k < Len(b) /\ a[k + 1] < b[k + 1])
         THEN -1 ELSE 1

OptStrCmp(a, b) ==
    IF a.some /\ b.some THEN StrCmp(a.v, b.v)
    ELSE IF a.some THEN 1 ELSE IF b.some THEN -1 ELSE 0

BoolCmp(a, b) == IF a = b THEN 0 ELSE IF b THEN -1 ELSE 1

\* ComFeedEntry::new
ComFeedEntry(feed_url, key, entry) ==
    [key |-> key, feed_url |-> feed_url, title |-> entry.title, link |-> entry.link,
     pub_date |-> entry.pub_date, read |-> entry.read]

\* Ord for ComFeedEntry that compares the dates of self against other:
\* oldest first.
ComFeedEntryCmp_oldest_first(self, other) ==
    IF NumCmp(self.pub_date, other.pub_date) # 0 THEN NumCmp(self.pub_date, other.pub_date)
    ELSE IF StrCmp(self.title, other.title) # 0 THEN StrCmp(self.title, other.title)
    ELSE IF OptStrCmp(self.link, other.link) # 0 THEN OptStrCmp(self.link, other.link)
    ELSE IF BoolCmp(self.read, other.read) # 0 THEN BoolCmp(self.read, other.read)
    ELSE StrCmp(self.key, other.key)

\* Ord for ComFeedEntry: pub_date (other against self), title, link, read, key.
ComFeedEntryCmp(self, other) ==
    IF NumCmp(other.pub_date, self.pub_date) # 0 THEN NumCmp(other.pub_date, self.pub_date)
    ELSE IF StrCmp(self.title, other.title) # 0 THEN StrCmp(self.title, other.title)
    ELSE IF OptStrCmp(self.link, other.link) # 0 THEN OptStrCmp(self.link, other.link)
    ELSE IF BoolCmp(self.read, other.read) # 0 THEN BoolCmp(self.read, other.read)
    ELSE StrCmp(self.key, other.key)

\* EntryTypeFilter::apply
apply(entry_filter, entry) == IF entry_filter = "All" THEN TRUE ELSE ~entry.read

\* FeedsFilter: All, Tag(tag), Single(url).
FilterAll == [kind |-> "All", arg |-> ""]
FilterTag(tag) == [kind |-> "Tag", arg |-> tag]
FilterSingle(url) == [kind |-> "Single", arg |-> url]

\* The feeds of a collection that the filter selects.
SelectedFeeds(collection, feed_filter) ==
    IF feed_filter.kind = "All" THEN DOMAIN collection
    ELSE IF feed_filter.kind = "Tag"
    THEN {url \in DOMAIN collection : feed_filter.arg \in collection[url].info.tags}
    ELSE {url \in DOMAIN collection : url = feed_filter.arg}

\* The flattened entries of the selected feeds that pass the entry filter.
FlatEntries(collection, feed_filter, entry_filter) ==
    UNION { { ComFeedEntry(url, key, collection[url].entries[key])
              : key \in {k \in DOMAIN collection[url].entries :
                            apply(entry_filter, collection[url].entries[k])} }
            : url \in SelectedFeeds(collection, feed_filter) }

\* Vec::sort: the orders of the entries in which no entry comes after a
\* greater one.  Entries that compare equal come in the order in which the
\* hash maps were iterated, which the code does not control: every such order
\* is a possible outcome.
SortedLists(entries) ==
    LET n == Cardinality(entries)
    IN { s \in [1..n -> entries] :
           /\ \A i, j \in 1..n : s[i] = s[j] => i = j
           /\ \A i, j \in 1..n : i < j => ComFeedEntryCmp(s[i], s[j]) <= 0 }

\* Vec::truncate
truncate(list, amount) ==
    IF amount < Len(list) THEN SubSeq(list, 1, amount) ELSE list

\* get_sorted_com_entries_with_filter that counts the entries after the
\* truncation.
get_sorted_com_entries_with_filter_total_after_truncate(collection, amount, feed_filter, entry_filter) ==
    { [entries |-> truncate(s, amount), total |-> Len(truncate(s, amount))]
      : s \in SortedLists(FlatEntries(collection, feed_filter, entry_filter)) }

\* RssCollection::get_sorted_com_entries_with_filter: the possible results
\* [entries, total].
get_sorted_com_entries_with_filter(collection, amount, feed_filter, entry_filter) ==
    { [entries |-> truncate(s, amount), total |-> Len(s)]
      : s \in SortedLists(FlatEntries(collection, feed_filter, entry_filter)) }

\* collection.iter().map(|(key, feed)| (key.clone(), feed.info.clone())).collect()
feeds_info_of(collection) == [url \in DOMAIN collection |-> collection[url].info]

\* Option<HashMap<Url, FeedInfo>>
NoInfo == [some |-> FALSE, v |-> EmptyMap]
SomeInfo(m) == [some |-> TRUE, v |-> m]

\* ------------------------------------------------------- users and sessions

\* Option<String> of a header or of the identity a session cookie carries.
NoText == [some |-> FALSE, v |-> ""]
SomeText(t) == [some |-> TRUE, v |-> t]


\* UserId::from_str: string.parse::<u32>().ok().map(Self), as [some, id].
UserId_from_str(string) ==
    IF string = "1" THEN [some |-> TRUE, id |-> 1]
    ELSE IF string = "2" THEN [some |-> TRUE, id |-> 2]
    ELSE IF string = "3" THEN [some |-> TRUE, id |-> 3]
    ELSE [some |-> FALSE, id |-> 0]

\* user_id.0.to_string()
UserId_to_string(id) ==
    IF id = 1 THEN "1" ELSE IF id = 2 THEN "2" ELSE IF id = 3 THEN "3" ELSE "0"

\* Option<AuthenticationResult> as [some, id, name].
NoAuth == [some |-> FALSE, id |-> 0, name |-> ""]

\* AuthData::authenticate_user_id without the lookup in the users table: every
\* identity that parses to a UserId is a principal.
authenticate_user_id_no_lookup(table, identity) ==
    IF identity.some /\ UserId_from_str(identity.v).some
    THEN LET id == UserId_from_str(identity.v).id
         IN [some |-> TRUE, id |-> id,
             name |-> IF id \in DOMAIN table THEN table[id].name ELSE ""]
    ELSE NoAuth

\* AuthData::authenticate_user_id: the identity of the session parsed to a
\* UserId and looked up in the users table.
authenticate_user_id(table, identity) ==
    IF identity.some /\ UserId_from_str(identity.v).some
    THEN LET id == UserId_from_str(identity.v).id
         IN IF id \in DOMAIN table
            THEN [some |-> TRUE, id |-> id, name |-> table[id].name]
            ELSE NoAuth
    ELSE NoAuth

\* The authentication middleware of the /api scope: resolves the identity of
\* the session cookie and attaches the principal to the request when there
\* is one.
AuthenticateMiddleware_call(table, identity) == authenticate_user_id(table, identity)

\* impl FromRequest for Authenticated: the principal attached to the request,
\* or Error::AuthenticationError, which is answered with 401 Unauthorized.
Authenticated_from_request(extensions) ==
    IF extensions.some THEN [ok |-> TRUE, status |-> 200, auth |-> extensions]
    ELSE [ok |-> FALSE, status |-> 401, auth |-> NoAuth]

\* AuthData::validate_password without the comparison of the password.
validate_password_any_password(table, order, user_name, password) ==
    LET found == {i \in 1..Len(order) : table[order[i]].name = user_name}
    IN IF found = {} THEN [some |-> FALSE, id |-> 0]
       ELSE [some |-> TRUE, id |-> order[CHOOSE i \in found : \A j \in found : i <= j]]

\* AuthData::validate_password: the first user of the table, in the order in
\* which the hash map is iterated, whose name is user_name; Some(id) when its
\* password is the given one.  Option<UserId> as [some, id].
validate_password(table, order, user_name, password) ==
    LET found == {i \in 1..Len(order) : table[order[i]].name = user_name}
    IN IF found = {} THEN [some |-> FALSE, id |-> 0]
       ELSE LET first == CHOOSE i \in found : \A j \in found : i <= j
                id == order[first]
            IN IF table[id].password = password
               THEN [some |-> TRUE, id |-> id]
               ELSE [some |-> FALSE, id |-> 0]

\* ------------------------------------------------- the handlers' lock bodies
\* What each handler does to the registry (HashMap<UserId, RssCollection>)
\* while it holds the registry lock.

\* add_feed, up to the fetch: the caller's collection is created if absent.
add_feed_collection(colls, user_id) ==
    IF user_id \in DOMAIN colls THEN colls
    ELSE [u \in (DOMAIN colls) \cup {user_id} |->
             IF u = user_id THEN EmptyMap ELSE colls[u]]

\* add_feed that takes every url for a new one.
add_feed_is_new_always(collection, url) == TRUE

\* add_feed, the test made before the fetch: !collection.contains_key(url).
add_feed_is_new(collection, url) == url \notin DOMAIN collection

\* add_feed, after the fetch, that puts a collection of the fetched feed alone
\* in the place of the collection of the user.
add_feed_insert_alone(colls, user_id, url, tags, maybe_feed) ==
    IF maybe_feed.ok
    THEN [colls EXCEPT ![user_id] =
             (url :> RssFeed(FeedInfo(maybe_feed.title, tags, Ok), maybe_feed.entries))]
    ELSE colls

\* add_feed, after the fetch, that inserts the feed without the tags of the
\* request.
add_feed_insert_no_tags(colls, user_id, url, tags, maybe_feed) ==
    IF maybe_feed.ok
    THEN LET info == FeedInfo(maybe_feed.title, {}, Ok)
             collection == colls[user_id]
         IN [colls EXCEPT ![user_id] =
                [u \in (DOMAIN collection) \cup {url} |->
                    IF u = url THEN RssFeed(info, maybe_feed.entries)
                    ELSE collection[u]]]
    ELSE colls

\* add_feed, after the fetch: a fetched feed is inserted under the url, with
\* the name of the fetched title and the tags of the request.
add_feed_insert(colls, user_id, url, tags, maybe_feed) ==
    IF maybe_feed.ok
    THEN LET info == FeedInfo(maybe_feed.title, tags, Ok)
             collection == colls[user_id]
         IN [colls EXCEPT ![user_id] =
                [u \in (DOMAIN collection) \cup {url} |->
                    IF u = url THEN RssFeed(info, maybe_feed.entries)
                    ELSE collection[u]]]
    ELSE colls

\* get_feeds with UpdateFeeds whose merge loop runs over the urls the
\* collection has at merge time, not over the urls that were snapshotted.
get_feeds_update_current_urls(colls, user_id, urls, feeds) ==
    IF user_id \in DOMAIN colls
    THEN LET collection == colls[user_id]
             updated == [url \in DOMAIN collection |->
                 IF url \in DOMAIN feeds
                 THEN update_entries(collection[url],
                         IF feeds[url].ok THEN OkEntries(feeds[url].entries)
                         ELSE ErrEntries(full_error_to_string(feeds[url].error)))
                 ELSE update_entries(collection[url], ErrEntries(NoResultText))]
         IN [collections |-> [colls EXCEPT ![user_id] = updated],
             feeds_info |-> SomeInfo(feeds_info_of(updated))]
    ELSE [collections |-> colls, feeds_info |-> NoInfo]

\* get_feeds with UpdateFeeds that gives the batch up when one of its fetches
\* failed: nothing is merged then.
get_feeds_update_all_or_nothing(colls, user_id, urls, feeds) ==
    IF user_id \in DOMAIN colls
    THEN LET collection == colls[user_id]
             failed == \E url \in DOMAIN feeds : ~ feeds[url].ok
             updated == [url \in DOMAIN collection |->
                 IF url \in urls /\ ~ failed
                 THEN IF url \in DOMAIN feeds
                      THEN update_entries(collection[url], OkEntries(feeds[url].entries))
                      ELSE update_entries(collection[url], ErrEntries(NoResultText))
                 ELSE collection[url]]
         IN [collections |-> [colls EXCEPT ![user_id] = updated],
             feeds_info |-> SomeInfo(feeds_info_of(updated))]
    ELSE [collections |-> colls, feeds_info |-> NoInfo]

\* get_feeds with UpdateFeeds, after the fetch: the merge of the batch into the
\* caller's collection and the feeds_info of the answer.
get_feeds_update(colls, user_id, urls, feeds) ==
    IF user_id \in DOMAIN colls
    THEN LET collection == colls[user_id]
             updated == [url \in DOMAIN collection |->
                 IF url \in urls
                 THEN IF url \in DOMAIN feeds
                      THEN update_entries(collection[url],
                              IF feeds[url].ok THEN OkEntries(feeds[url].entries)
                              ELSE ErrEntries(full_error_to_string(feeds[url].error)))
                      ELSE update_entries(collection[url], ErrEntries(NoResultText))
                 ELSE collection[url]]
         IN [collections |-> [colls EXCEPT ![user_id] = updated],
             feeds_info |-> SomeInfo(feeds_info_of(updated))]
    ELSE [collections |-> colls, feeds_info |-> NoInfo]

\* update_all_collections whose merge stops at the first collection that
\* holds the url: the other owners of the url are not merged.
update_all_collections_merge_first_owner(colls, feed_urls, feed_requests) ==
    [u \in DOMAIN colls |->
        [url \in DOMAIN colls[u] |->
            IF url \in feed_urls /\ ~ \E v \in DOMAIN colls : v < u /\ url \in DOMAIN colls[v]
            THEN IF url \in DOMAIN feed_requests
                 THEN update_entries(colls[u][url],
                         IF feed_requests[url].ok
                         THEN OkEntries(feed_requests[url].entries)
                         ELSE ErrEntries(feed_requests[url].error))
                 ELSE update_entries(colls[u][url], ErrEntries(NoResultText))
            ELSE colls[u][url]]]

\* update_all_collections, after the fetch: the merge of the batch into every
\* collection.
update_all_collections_merge(colls, feed_urls, feed_requests) ==
    [u \in DOMAIN colls |->
        [url \in DOMAIN colls[u] |->
            IF url \in feed_urls
            THEN IF url \in DOMAIN feed_requests
                 THEN update_entries(colls[u][url],
                         IF feed_requests[url].ok
                         THEN OkEntries(feed_requests[url].entries)
                         ELSE ErrEntries(feed_requests[url].error))
                 ELSE update_entries(colls[u][url], ErrEntries(NoResultText))
            ELSE colls[u][url]]]

\* set_entry_read that looks the feed up in the collection of any user that
\* has it, the caller's first.
set_entry_read_any_owner(colls, user_id, request) ==
    LET owners == { u \in DOMAIN colls :
                      /\ request.feed_url \in DOMAIN colls[u]
                      /\ request.entry_key \in DOMAIN colls[u][request.feed_url].entries }
    IN IF owners = {}
       THEN [status |-> 401, collections |-> colls]
       ELSE LET owner == IF user_id \in owners THEN user_id ELSE CHOOSE u \in owners : TRUE
            IN [status |-> 200,
                collections |-> [colls EXCEPT
                    ![owner][request.feed_url].entries[request.entry_key].read =
                        request.read]]

\* set_entry_read that marks every entry of the named feed.
set_entry_read_whole_feed(colls, user_id, request) ==
    IF user_id \in DOMAIN colls
    THEN IF request.feed_url \in DOMAIN colls[user_id]
         THEN IF request.entry_key \in DOMAIN colls[user_id][request.feed_url].entries
              THEN [status |-> 200,
                    collections |-> [colls EXCEPT
                        ![user_id][request.feed_url].entries =
                            [k \in DOMAIN @ |-> [@[k] EXCEPT !.read = request.read]]]]
              ELSE [status |-> 401, collections |-> colls]
         ELSE [status |-> 401, collections |-> colls]
    ELSE [status |-> 401, collections |-> colls]

\* set_entry_read: [status, collections].
set_entry_read(colls, user_id, request) ==
    IF user_id \in DOMAIN colls
    THEN IF request.feed_url \in DOMAIN colls[user_id]
         THEN IF request.entry_key \in DOMAIN colls[user_id][request.feed_url].entries
              THEN [status |-> 200,
                    collections |-> [colls EXCEPT
                        ![user_id][request.feed_url].entries[request.entry_key].read =
                            request.read]]
              ELSE [status |-> 401, collections |-> colls]
         ELSE [status |-> 401, collections |-> colls]
    ELSE [status |-> 401, collections |-> colls]

\* set_feed_info that writes the info to the feed of every user that has the
\* url.
set_feed_info_every_owner(colls, user_id, request) ==
    IF user_id \in DOMAIN colls
    THEN IF request.feed_url \in DOMAIN colls[user_id]
         THEN [status |-> 200,
               collections |->
                  [u \in DOMAIN colls |->
                     [url \in DOMAIN colls[u] |->
                        IF url = request.feed_url
                        THEN [colls[u][url] EXCEPT !.info = request.info]
                        ELSE colls[u][url]]]]
         ELSE [status |-> 401, collections |-> colls]
    ELSE [status |-> 401, collections |-> colls]

\* set_feed_info that takes the name of the request and keeps the tags.
set_feed_info_name_only(colls, user_id, request) ==
    IF user_id \in DOMAIN colls
    THEN IF request.feed_url \in DOMAIN colls[user_id]
         THEN [status |-> 200,
               collections |-> [colls EXCEPT ![user_id][request.feed_url].info =
                                   [request.info EXCEPT
                                       !.tags = colls[user_id][request.feed_url].info.tags]]]
         ELSE [status |-> 401, collections |-> colls]
    ELSE [status |-> 401, collections |-> colls]

\* set_feed_info: [status, collections].
set_feed_info(colls, user_id, request) ==
    IF user_id \in DOMAIN colls
    THEN IF request.feed_url \in DOMAIN colls[user_id]
         THEN [status |-> 200,
               collections |-> [colls EXCEPT ![user_id][request.feed_url].info =
                                   request.info]]
         ELSE [status |-> 401, collections |-> colls]
    ELSE [status |-> 401, collections |-> colls]

\* get_feeds, the answer, built from the collection of the first user of the
\* registry whoever the caller is.
get_feeds_response_first_collection(colls, user_id, amount, feed_filter, entry_filter, feeds_info) ==
    IF user_id \in DOMAIN colls
    THEN { [status |-> 200,
            body |-> [feed_entries |-> r.entries, total_available |-> r.total,
                      feeds_info |-> feeds_info]]
           : r \in get_sorted_com_entries_with_filter(
                       colls[CHOOSE u \in DOMAIN colls : \A v \in DOMAIN colls : u <= v],
                       amount, feed_filter, entry_filter) }
    ELSE { [status |-> 403,
            body |-> [feed_entries |-> << >>, total_available |-> 0,
                      feeds_info |-> NoInfo]] }

\* get_feeds, the answer: the possible answers [status, body] for the caller.
get_feeds_response(colls, user_id, amount, feed_filter, entry_filter, feeds_info) ==
    IF user_id \in DOMAIN colls
    THEN { [status |-> 200,
            body |-> [feed_entries |-> r.entries, total_available |-> r.total,
                      feeds_info |-> feeds_info]]
           : r \in get_sorted_com_entries_with_filter(
                       colls[user_id], amount, feed_filter, entry_filter) }
    ELSE { [status |-> 403,
            body |-> [feed_entries |-> << >>, total_available |-> 0,
                      feeds_info |-> NoInfo]] }

\* -------------------------------------------------------------- persistence

\* The length of an EntryKey in bytes.
KeyLen == 32

\* The symbols of a base64 text: the 64 characters of the standard alphabet
\* by their index (A = 0 .. / = 63), the padding character `=`, and a
\* character that is not in the alphabet.
Pad == 64
BadChar == 65

\* base64::encode: three bytes give four characters; the last group of one
\* or two bytes is padded.
RECURSIVE base64_encode(_)
base64_encode(bytes) ==
    IF Len(bytes) = 0 THEN << >>
    ELSE IF Len(bytes) = 1
    THEN <<bytes[1] \div 4, (bytes[1] % 4) * 16, Pad, Pad>>
    ELSE IF Len(bytes) = 2
    THEN <<bytes[1] \div 4, (bytes[1] % 4) * 16 + bytes[2] \div 16,
           (bytes[2] % 16) * 4, Pad>>
    ELSE <<bytes[1] \div 4, (bytes[1] % 4) * 16 + bytes[2] \div 16,
           (bytes[2] % 16) * 4 + bytes[3] \div 64, bytes[3] % 64>>
         \o base64_encode(SubSeq(bytes, 4, Len(bytes)))

\* The bytes of the characters of a text without padding: four characters
\* give three bytes, the last group of two or three characters one or two.
RECURSIVE decode_chunks(_)
decode_chunks(chars) ==
    IF Len(chars) < 2 THEN << >>
    ELSE IF Len(chars) = 2
    THEN <<chars[1] * 4 + chars[2] \div 16>>
    ELSE IF Len(chars) = 3
    THEN <<chars[1] * 4 + chars[2] \div 16, (chars[2] % 16) * 16 + chars[3] \div 4>>
    ELSE <<chars[1] * 4 + chars[2] \div 16, (chars[2] % 16) * 16 + chars[3] \div 4,
           (chars[3] % 4) * 64 + chars[4]>>
         \o decode_chunks(SubSeq(chars, 5, Len(chars)))

\* base64::decode: [ok, bytes].  It is an error when a character is not in
\* the alphabet, when padding stands anywhere but at the end of a last group
\* of four, when one character is left over, and when the last character
\* carries bits that belong to no byte.
base64_decode(text) ==
    LET n == Len(text)
        pads == IF n >= 1 /\ text[n] = Pad
                THEN (IF n >= 2 /\ text[n - 1] = Pad THEN 2 ELSE 1)
                ELSE 0
        chars == SubSeq(text, 1, n - pads)
        m == Len(chars)
        error == [ok |-> FALSE, bytes |-> << >>]
    IN IF \E i \in 1..m : chars[i] \notin 0..63 THEN error
       ELSE IF pads > 0 /\ n % 4 # 0 THEN error
       ELSE IF m % 4 = 1 THEN error
       ELSE IF m % 4 = 2 /\ chars[m] % 16 # 0 THEN error
       ELSE IF m % 4 = 3 /\ chars[m] % 4 # 0 THEN error
       ELSE [ok |-> TRUE, bytes |-> decode_chunks(chars)]

\* Serialize for EntryKey: the base64 text of the 32 bytes.
EntryKey_serialize(key) == base64_encode(key)

\* Deserialize for EntryKey that takes whatever number of bytes the text
\* decodes to.
EntryKey_deserialize_any_length(string) ==
    LET decoded == base64_decode(string)
    IN IF ~decoded.ok THEN [ok |-> FALSE, key |-> << >>]
       ELSE [ok |-> TRUE, key |-> decoded.bytes]

\* Deserialize for EntryKey: [ok, key]; the text is decoded and the bytes are
\* converted into an array of 32, which fails for any other number of bytes.
EntryKey_deserialize(string) ==
    LET decoded == base64_decode(string)
    IN IF ~decoded.ok THEN [ok |-> FALSE, key |-> << >>]
       ELSE IF Len(decoded.bytes) # KeyLen THEN [ok |-> FALSE, key |-> << >>]
       ELSE [ok |-> TRUE, key |-> decoded.bytes]

\* The 32 bytes self.0 of an EntryKey.  The model writes a key as the byte
\* string that was hashed, the hash being taken as injective; its 32 bytes
\* are written as that string, zero padding and its length.
EntryKey_bytes(key) ==
    [i \in 1..KeyLen |->
        IF i <= Len(key) THEN key[i] ELSE IF i = KeyLen THEN Len(key) ELSE 0]

\* EntryKey(bytes): the key, as the model writes it, of 32 bytes.
EntryKey_of_bytes(bytes) ==
    IF bytes[KeyLen] < KeyLen THEN SubSeq(bytes, 1, bytes[KeyLen]) ELSE bytes

\* A field of the document of a struct with #[serde(default)]: the value
\* written, or the default value of the field when the document lacks it.
field(doc, name, default) == IF name \in DOMAIN doc THEN doc[name] ELSE default

\* The date of DateTime::<Utc>::default(), 1970-01-01: after default_date
\* and before the dates of the items of the model.
epoch == 1

\* Serialize and Deserialize for FeedEntry (derived, #[serde(default)]).
FeedEntry_serialize(entry) ==
    [title |-> entry.title, link |-> entry.link, pub_date |-> entry.pub_date,
     read |-> entry.read]

\* FeedEntry out of a document that drops the read flag.
FeedEntry_deserialize_unread(doc) ==
    [title |-> field(doc, "title", << >>),
     link |-> field(doc, "link", NoneStr),
     pub_date |-> field(doc, "pub_date", epoch),
     read |-> FALSE]

FeedEntry_deserialize(doc) ==
    [title |-> field(doc, "title", << >>),
     link |-> field(doc, "link", NoneStr),
     pub_date |-> field(doc, "pub_date", epoch),
     read |-> field(doc, "read", FALSE)]

\* Serialize and Deserialize for FeedInfo (derived, #[serde(default)]): the
\* name, the tags and the result of the last refresh are written.
FeedInfo_serialize(info) ==
    [name |-> info.name, tags |-> info.tags, last_update_result |-> info.last_update_result]

FeedInfo_deserialize(doc) ==
    FeedInfo(field(doc, "name", ""), field(doc, "tags", {}),
             field(doc, "last_update_result", Ok))

\* Serialize for FeedEntries (derived on the newtype): the map of the base64
\* text of each key to the document of its entry.
FeedEntries_serialize(entries) ==
    LET text(k) == EntryKey_serialize(EntryKey_bytes(k))
    IN [t \in { text(k) : k \in DOMAIN entries } |->
           FeedEntry_serialize(entries[CHOOSE k \in DOMAIN entries : text(k) = t])]

\* Deserialize for FeedEntries: [ok, v]; it fails when a key of the document
\* is no EntryKey.
FeedEntries_deserialize(doc) ==
    IF \E t \in DOMAIN doc : ~EntryKey_deserialize(t).ok
    THEN [ok |-> FALSE, v |-> EmptyMap]
    ELSE LET key(t) == EntryKey_of_bytes(EntryKey_deserialize(t).key)
         IN [ok |-> TRUE,
             v |-> [k \in { key(t) : t \in DOMAIN doc } |->
                       FeedEntry_deserialize(doc[CHOOSE t \in DOMAIN doc : key(t) = k])]]

\* Serialize and Deserialize for RssFeed (derived, #[serde(default)]).
RssFeed_serialize(feed) ==
    [info |-> FeedInfo_serialize(feed.info), entries |-> FeedEntries_serialize(feed.entries)]

RssFeed_deserialize(doc) ==
    LET entries == FeedEntries_deserialize(field(doc, "entries", EmptyMap))
    IN [ok |-> entries.ok,
        v |-> RssFeed(FeedInfo_deserialize(field(doc, "info", EmptyMap)), entries.v)]

\* to_string_pretty of RssCollections: the document of the map under the
\* lock, user by user and url by url.
to_string_pretty(colls) ==
    [u \in DOMAIN colls |-> [url \in DOMAIN colls[u] |-> RssFeed_serialize(colls[u][url])]]

\* ron::from_str for RssCollections: [ok, v].
from_str(contents) ==
    IF \E u \in DOMAIN contents : \E url \in DOMAIN contents[u] :
          ~RssFeed_deserialize(contents[u][url]).ok
    THEN [ok |-> FALSE, v |-> EmptyMap]
    ELSE [ok |-> TRUE,
          v |-> [u \in DOMAIN contents |->
                    [url \in DOMAIN contents[u] |-> RssFeed_deserialize(contents[u][url]).v]]]

\* Serialize and Deserialize for SetEntryReadRequestAndResponse (derived): the
\* body that .json() sends and the request that web::Json takes out of a
\* body, [ok, v]; the entry key travels as its base64 text.
SetEntryReadRequestAndResponse_serialize(request) ==
    [feed_url |-> request.feed_url,
     entry_key |-> EntryKey_serialize(EntryKey_bytes(request.entry_key)),
     read |-> request.read]

SetEntryReadRequestAndResponse_deserialize(doc) ==
    IF /\ {"feed_url", "entry_key", "read"} \subseteq DOMAIN doc
       /\ EntryKey_deserialize(doc.entry_key).ok
    THEN [ok |-> TRUE,
          v |-> [feed_url |-> doc.feed_url,
                 entry_key |-> EntryKey_of_bytes(EntryKey_deserialize(doc.entry_key).key),
                 read |-> doc.read]]
    ELSE [ok |-> FALSE, v |-> EmptyMap]

\* Serialize and Deserialize for SetFeedInfoRequestAndResponse (derived).
SetFeedInfoRequestAndResponse_serialize(request) ==
    [feed_url |-> request.feed_url, info |-> FeedInfo_serialize(request.info)]

SetFeedInfoRequestAndResponse_deserialize(doc) ==
    IF {"feed_url", "info"} \subseteq DOMAIN doc
    THEN [ok |-> TRUE,
          v |-> [feed_url |-> doc.feed_url, info |-> FeedInfo_deserialize(doc.info)]]
    ELSE [ok |-> FALSE, v |-> EmptyMap]

\* Hash for FeedInfo: the name and the tags are fed to the hasher.
FeedInfo_hash(info) == [name |-> info.name, tags |-> info.tags]

\* Hash for RssCollections, RssCollection, RssFeed and FeedEntries: every
\* user with its collection, every url with its feed, the info of the feed and
\* every key with its entry are fed to the hasher.  The hash is the value that
\* is fed: the hasher is taken to be injective on it.
hash(colls) ==
    [u \in DOMAIN colls |->
        [url \in DOMAIN colls[u] |->
            [info |-> FeedInfo_hash(colls[u][url].info),
             entries |-> colls[u][url].entries]]]

\* Option of a hash and of the content of the file collections.ron; a torn
\* file is one whose write failed midway.
NoHash == [some |-> FALSE, v |-> << >>]
SomeHash(h) == [some |-> TRUE, v |-> h]
NoFile == [some |-> FALSE, torn |-> FALSE, v |-> << >>]
TornFile == [some |-> TRUE, torn |-> TRUE, v |-> << >>]
SomeFile(content) == [some |-> TRUE, torn |-> FALSE, v |-> content]

\* What the file system and the serializer do to one save: the file is
\* written; the serializer or fs::write fails with nothing written; fs::write
\* fails midway; the persistence directory cannot be created.
SaveOutcomes == {"written", "not_written", "torn", "no_directory"}

\* SaveInRonFile::save: [panics, warned, written, file]; the file written
\* holds the text that the registry is serialized to.
save(file, content, outcome) ==
    IF outcome = "no_directory"
    THEN [panics |-> TRUE, warned |-> FALSE, written |-> FALSE, file |-> file]
    ELSE IF outcome = "written"
    THEN [panics |-> FALSE, warned |-> FALSE, written |-> TRUE, file |-> SomeFile(to_string_pretty(content))]
    ELSE IF outcome = "torn"
    THEN [panics |-> FALSE, warned |-> TRUE, written |-> FALSE, file |-> TornFile]
    ELSE [panics |-> FALSE, warned |-> TRUE, written |-> FALSE, file |-> file]

\* SaveInRonFile::load: Option of the registry that the file deserializes to;
\* None when the file cannot be read or its text is not a registry.
load(file) ==
    IF ~file.some \/ file.torn
    THEN [some |-> FALSE, v |-> EmptyMap]
    ELSE LET result == from_str(file.v)
         IN [some |-> result.ok, v |-> result.v]

\* SaveInRonFile::load_or_default: load().unwrap_or_default(); the default
\* of RssCollections is the registry with no user.
load_or_default(file) == IF load(file).some THEN load(file).v ELSE EmptyMap

\* The snapshot worker, the file and the server when main has loaded the
\* registry `loaded`: RssCollections::load_or_default() reads the file and
\* writes nothing, the worker is spawned and has not run yet.
StartSnapshots(loaded) ==
    [pc |-> "start", last_save_hash |-> NoHash, new_hash |-> NoHash, ticks |-> 0,
     writes |-> 0, file |-> IF loaded = EmptyMap THEN NoFile ELSE SomeFile(to_string_pretty(loaded)),
     warned |-> FALSE, server |-> "running", loaded |-> loaded]

\* -------------------------------------------------------------------- state

VARIABLES
    users,        \* AuthData.users: UserId -> [name, password]
    usersOrder,   \* the order in which the users hash map is iterated
    session,      \* per client, the identity its session cookie carries
    collections,  \* RssCollections: UserId -> (Url -> RssFeed)
    writer,       \* the task that holds the write lock of RssCollections
    task,         \* per task, where it stands in its handler and its locals
    nops,         \* the number of requests received and of worker ticks
    resp,         \* the last answer sent: [op, client, user, status, request, body],
                  \* user the principal the handler ran for (0: none)
    snap,         \* the snapshot worker, the file collections.ron and the
                  \* server: [pc, last_save_hash, new_hash, ticks, writes,
                  \* file, warned, server, loaded]
    call          \* the last call of a library function made on its own:
                  \* [fn, args, result]

vars == <<users, usersOrder, session, collections, writer, task, nops, resp, snap, call>>

Clients == {"c1", "c2", "c3", "c4", "c5"}
Urls == {"A", "B"}
TagSets == {{"t"}}
Keys == {<<1, 2>>, NoTitle}
InfoInputs == { FeedInfo("Mine", {"t"}, r) : r \in {Ok, Err("stale")} }
UserNames == {"ann", "bob", "eve"}
Passwords == {"pa", "pb"}

\* The request handlers that run concurrently, and the refresh worker.
Handlers == {"h1", "h2"}
Bg == "bg"
Tasks == Handlers \cup {Bg}
NoTask == "none"

\* A task that runs nothing.  Two fields are history, not locals of the code:
\* `marked` holds the <<url, key>> of the entries that set_entry_read marked
\* read while the task awaited its fetch, and `seen` the <<url, key>> of the
\* fetched entries whose key the merge of the task found stored as read.
IdleTask ==
    [pc |-> "idle", client |-> "", user |-> 0, action |-> "", url |-> "", urls |-> {},
     info |-> NoInfo, marked |-> {}, seen |-> {}]

NoBody == [none |-> TRUE]
NoResp ==
    [op |-> "", client |-> "", user |-> 0, status |-> 0, request |-> NoBody, body |-> NoBody]
Response(op, client, user, status, request, body) ==
    [op |-> op, client |-> client, user |-> user, status |-> status, request |-> request,
     body |-> body]

\* The principal of a request of client c, as the Authenticated extractor
\* gives it to the handler.
Principal(c) ==
    Authenticated_from_request(AuthenticateMiddleware_call(users, session[c]))

\* A request is received: the answer before it has been sent.
Receive ==
    /\ snap.server = "running"
    /\ resp = NoResp
    /\ nops < MaxOps
    /\ nops' = nops + 1

\* The handler slot that the next request takes: which worker runs a
\* request makes no difference to the program, so the first idle one is taken.
FreeSlot(t) ==
    /\ t \in Handlers
    /\ task[t].pc = "idle"
    /\ t = "h1" \/ task["h1"].pc # "idle"

\* The registry as loaded from collections.ron at start.
StoredEntry(item, read) == [from_raw_feed_entry(item).entry EXCEPT !.read = read]
StoredEntries(item, read) ==
    from_raw_feed_entry(item).key :> StoredEntry(item, read)

SeededCollections ==
    (1 :> ("A" :> RssFeed(FeedInfo("News", {}, Ok),
                          StoredEntries(Item(SomeStr(<<1>>), << <<2>> >>, SomeDate(2), NoneDate), FALSE))))
    @@
    (2 :> (("A" :> RssFeed(FeedInfo("News", {"t"}, Ok),
                           StoredEntries(Item(SomeStr(<<1>>), << <<2>> >>, SomeDate(2), NoneDate), TRUE)))
           @@
           ("B" :> RssFeed(FeedInfo("", {}, Err(FetchErrorText)),
                           StoredEntries(Item(NoneStr, << >>, NoneDate, NoneDate), FALSE)))))

InitialCollections == {EmptyMap, SeededCollections}

\* The users table as loaded from auth.ron.
StoredUsers ==
    (1 :> [name |-> "ann", password |-> "pa"]) @@ (2 :> [name |-> "bob", password |-> "pb"])

\* The session cookies the clients hold from earlier logins: of user 1, of
\* user 2, of a user 3 that is no longer in the users table, one whose
\* identity is no number, and none.
StoredSessions ==
    ("c1" :> SomeText("1")) @@ ("c2" :> SomeText("2")) @@ ("c3" :> SomeText("3"))
    @@ ("c4" :> SomeText("x")) @@ ("c5" :> NoText)

\* No library function has been called on its own.
NoCall == [fn |-> "", args |-> << >>, result |-> << >>]

InitRest ==
    /\ writer = NoTask
    /\ task = [t \in Tasks |-> IdleTask]
    /\ nops = 0
    /\ resp = NoResp
    /\ snap = StartSnapshots(collections)
    /\ call = NoCall

Init ==
    /\ users = StoredUsers
    /\ usersOrder = <<1, 2>>
    /\ session = StoredSessions
    /\ collections \in InitialCollections
    /\ InitRest

\* ------------------------------------------------------------ auth handlers

\* login that answers a request without the two headers with 400 Bad Request.
login_missing_headers_bad_request(table, order, identity, user_name, password) ==
    IF user_name.some /\ password.some
    THEN LET valid == validate_password(table, order, user_name.v, password.v)
         IN IF valid.some
            THEN [status |-> 200, identity |-> SomeText(UserId_to_string(valid.id))]
            ELSE [status |-> 401, identity |-> identity]
    ELSE [status |-> 400, identity |-> identity]

\* login: [status, identity], the answer and the identity the session carries
\* afterwards.  The headers are Option<String>.
login(table, order, identity, user_name, password) ==
    IF user_name.some /\ password.some
    THEN LET valid == validate_password(table, order, user_name.v, password.v)
         IN IF valid.some
            THEN [status |-> 200, identity |-> SomeText(UserId_to_string(valid.id))]
            ELSE [status |-> 401, identity |-> identity]
    ELSE [status |-> 401, identity |-> identity]

Login(c, user_name, password) ==
    /\ Receive
    /\ LET r == login(users, usersOrder, session[c], user_name, password)
       IN /\ session' = [session EXCEPT ![c] = r.identity]
          /\ resp' = Response("login", c, 0, r.status,
                              [user_name |-> user_name, password |-> password], NoBody)
    /\ UNCHANGED <<users, usersOrder, collections, writer, task, snap, call>>

\* logout: id.logout() forgets the identity of the session.
Logout(c) ==
    /\ Receive
    /\ LET p == Principal(c)
       IN IF p.ok
          THEN /\ session' = [session EXCEPT ![c] = NoText]
               /\ resp' = Response("logout", c, p.auth.id, 200, NoBody, NoBody)
          ELSE /\ session' = session
               /\ resp' = Response("logout", c, 0, p.status, NoBody, NoBody)
    /\ UNCHANGED <<users, usersOrder, collections, writer, task, snap, call>>

\* test_auth_cookie
TestAuthCookie(c) ==
    /\ Receive
    /\ resp' = Response("test_auth_cookie", c, Principal(c).auth.id, Principal(c).status, NoBody, NoBody)
    /\ UNCHANGED <<users, usersOrder, session, collections, writer, task, snap, call>>

\* ------------------------------------------------------ registry handlers

\* The tasks that await a fetch for the feed of user u under url.
AwaitingFetchOf(u, url) ==
    { t \in Tasks : /\ task[t].pc \in {"uf_fetch", "bg_fetch"}
                    /\ url \in task[t].urls
                    /\ t = Bg \/ task[t].user = u }

\* set_entry_read, under the write lock.
SetEntryRead(c, request) ==
    /\ Receive
    /\ LET p == Principal(c)
       IN IF p.ok
          THEN /\ writer = NoTask
               /\ LET r == set_entry_read(collections, p.auth.id, request)
                  IN /\ collections' = r.collections
                     /\ resp' = Response("set_entry_read", c, p.auth.id, r.status, request,
                                         IF r.status = 200
                                         THEN SetEntryReadRequestAndResponse_serialize(request)
                                         ELSE NoBody)
                     /\ task' = [t \in Tasks |->
                           IF /\ r.status = 200
                              /\ request.read
                              /\ t \in AwaitingFetchOf(p.auth.id, request.feed_url)
                           THEN [task[t] EXCEPT
                                   !.marked = @ \cup {<<request.feed_url, request.entry_key>>}]
                           ELSE task[t]]
          ELSE /\ resp' = Response("set_entry_read", c, 0, p.status, NoBody, NoBody)
               /\ UNCHANGED <<collections, task>>
    /\ UNCHANGED <<users, usersOrder, session, writer, snap, call>>

\* set_feed_info, under the write lock.
SetFeedInfo(c, request) ==
    /\ Receive
    /\ LET p == Principal(c)
       IN IF p.ok
          THEN /\ writer = NoTask
               /\ LET r == set_feed_info(collections, p.auth.id, request)
                  IN /\ collections' = r.collections
                     /\ resp' = Response("set_feed_info", c, p.auth.id, r.status, request,
                                         IF r.status = 200
                                         THEN SetFeedInfoRequestAndResponse_serialize(request)
                                         ELSE NoBody)
          ELSE /\ resp' = Response("set_feed_info", c, 0, p.status, NoBody, NoBody)
               /\ UNCHANGED collections
    /\ UNCHANGED <<users, usersOrder, session, writer, task, snap, call>>

\* add_feed up to its await: the write lock is taken, the caller's collection
\* is created if absent, and for a new url the fetch is started with the lock
\* still held (the guard lives to the end of the block, rss_collection.rs:308).
AddFeed(c, url) ==
    /\ Receive
    /\ LET p == Principal(c)
       IN IF p.ok
          THEN /\ writer = NoTask
               /\ collections' = add_feed_collection(collections, p.auth.id)
               /\ IF ~add_feed_is_new(collections'[p.auth.id], url)
                  THEN /\ resp' = Response("add_feed", c, p.auth.id, 200, [url |-> url], NoBody)
                       /\ UNCHANGED <<writer, task>>
                  ELSE \E t \in Handlers :
                         /\ FreeSlot(t)
                         /\ writer' = t
                         /\ task' = [task EXCEPT ![t] =
                               [IdleTask EXCEPT !.pc = "af_fetch", !.client = c,
                                                !.user = p.auth.id, !.url = url]]
                         /\ UNCHANGED resp
          ELSE /\ resp' = Response("add_feed", c, 0, p.status, NoBody, NoBody)
               /\ UNCHANGED <<collections, writer, task>>
    /\ UNCHANGED <<users, usersOrder, session, snap, call>>

\* add_feed after its await: request_feed has returned; a fetched feed is
\* inserted, the lock is released and 200 is answered in either case.
AddFeedFetched(t, tags, answer) ==
    /\ resp = NoResp
    /\ task[t].pc = "af_fetch"
    /\ collections' = add_feed_insert(collections, task[t].user, task[t].url, tags,
                                      download_feed(answer))
    /\ writer' = NoTask
    /\ resp' = Response("add_feed", task[t].client, task[t].user, 200,
                        [url |-> task[t].url], NoBody)
    /\ task' = [task EXCEPT ![t] = IdleTask]
    /\ UNCHANGED <<users, usersOrder, session, nops, snap, call>>

\* A /feeds request: [filter, entry_filter, amount, additional_action].
FeedsRequest(filter, entry_filter, amount, additional_action) ==
    [filter |-> filter, entry_filter |-> entry_filter, amount |-> amount,
     additional_action |-> additional_action]

FeedsRequests(additional_action) ==
    { FeedsRequest(FilterAll, "All", MaxAmount, additional_action),
      FeedsRequest(FilterTag("t"), "Unread", MaxAmount, additional_action),
      FeedsRequest(FilterSingle("B"), "All", 1, additional_action) }

\* The last step of get_feeds: under the read lock the view of the caller's
\* collection is built and answered together with feeds_info.
FeedsAnswer(c, user_id, request, feeds_info) ==
    \E r \in get_feeds_response(collections, user_id, request.amount, request.filter,
                                request.entry_filter, feeds_info) :
        resp' = Response("feeds", c, user_id, r.status, request, r.body)

\* get_feeds with AdditionalAction::None: one step.
GetFeeds(c, request) ==
    /\ Receive
    /\ LET p == Principal(c)
       IN IF p.ok
          THEN /\ writer = NoTask
               /\ FeedsAnswer(c, p.auth.id, request, NoInfo)
          ELSE resp' = Response("feeds", c, 0, p.status, NoBody, NoBody)
    /\ UNCHANGED <<users, usersOrder, session, collections, writer, task, snap, call>>

\* get_feeds with IncludeFeedsInfo, first step: feeds_info is read under the
\* read lock, which is dropped before the view takes it again.
GetFeedsIncludeInfo(c) ==
    /\ Receive
    /\ LET p == Principal(c)
       IN IF p.ok
          THEN /\ writer = NoTask
               /\ \E t \in Handlers :
                    /\ FreeSlot(t)
                    /\ task' = [task EXCEPT ![t] =
                          [IdleTask EXCEPT
                             !.pc = "view", !.client = c, !.user = p.auth.id,
                             !.action = "IncludeFeedsInfo",
                             !.info = IF p.auth.id \in DOMAIN collections
                                      THEN SomeInfo(feeds_info_of(collections[p.auth.id]))
                                      ELSE NoInfo]]
               /\ UNCHANGED resp
          ELSE /\ resp' = Response("feeds", c, 0, p.status, NoBody, NoBody)
               /\ UNCHANGED task
    /\ UNCHANGED <<users, usersOrder, session, collections, writer, snap, call>>

\* get_feeds with UpdateFeeds, first step: the urls of the caller's collection
\* are taken under the read lock, the lock is dropped and the fetch starts.
\* A caller without a collection goes on to the view with no feeds_info.
GetFeedsUpdate(c) ==
    /\ Receive
    /\ LET p == Principal(c)
       IN IF p.ok
          THEN /\ writer = NoTask
               /\ \E t \in Handlers :
                    /\ FreeSlot(t)
                    /\ task' = [task EXCEPT ![t] =
                          IF p.auth.id \in DOMAIN collections
                          THEN [IdleTask EXCEPT
                                  !.pc = "uf_fetch", !.client = c, !.user = p.auth.id,
                                  !.action = "UpdateFeeds",
                                  !.urls = DOMAIN collections[p.auth.id]]
                          ELSE [IdleTask EXCEPT
                                  !.pc = "view", !.client = c, !.user = p.auth.id,
                                  !.action = "UpdateFeeds"]]
               /\ UNCHANGED resp
          ELSE /\ resp' = Response("feeds", c, 0, p.status, NoBody, NoBody)
               /\ UNCHANGED task
    /\ UNCHANGED <<users, usersOrder, session, collections, writer, snap, call>>

\* The <<url, key>> of the fetched entries whose key the collection of
\* user_id already stores as read: there or_insert discards a fetched entry
\* that differs from the stored one.
Reobserved(colls, user_id, feeds) ==
    IF user_id \notin DOMAIN colls
    THEN {}
    ELSE { p \in (DOMAIN feeds) \X Keys :
             /\ p[1] \in DOMAIN colls[user_id]
             /\ feeds[p[1]].ok
             /\ p[2] \in DOMAIN feeds[p[1]].entries
             /\ p[2] \in DOMAIN colls[user_id][p[1]].entries
             /\ colls[user_id][p[1]].entries[p[2]].read }

\* get_feeds with UpdateFeeds, after the fetch: request_feeds has returned what
\* upstream answered, and the batch is merged under the write lock.
GetFeedsMerge(t, answers) ==
    /\ resp = NoResp
    /\ task[t].pc = "uf_fetch"
    /\ writer = NoTask
    /\ LET feeds == request_feeds(task[t].urls, answers)
           r == get_feeds_update(collections, task[t].user, task[t].urls, feeds)
       IN /\ collections' = r.collections
          /\ task' = [task EXCEPT ![t].pc = "view", ![t].info = r.feeds_info,
                                  ![t].seen = Reobserved(collections, task[t].user, feeds)]
    /\ UNCHANGED <<users, usersOrder, session, writer, nops, resp, snap, call>>

\* get_feeds, last step of a request with IncludeFeedsInfo or UpdateFeeds.
GetFeedsView(t, request) ==
    /\ resp = NoResp
    /\ task[t].pc = "view"
    /\ writer = NoTask
    /\ FeedsAnswer(task[t].client, task[t].user, request, task[t].info)
    /\ task' = [task EXCEPT ![t] = IdleTask]
    /\ UNCHANGED <<users, usersOrder, session, collections, writer, nops, snap, call>>

\* is_url_an_rss_feed: the fetch is awaited with no lock, and the title of the
\* feed or the text of the error is answered.
IsUrlAnRssFeed(c, url, answer) ==
    /\ Receive
    /\ LET p == Principal(c)
           maybe_feed == download_feed(answer)
       IN IF p.ok
          THEN resp' = Response("is_url_an_rss_feed", c, p.auth.id, 200, [url |-> url],
                                [requested_url |-> url,
                                 result |-> IF maybe_feed.ok
                                            THEN [ok |-> TRUE, v |-> maybe_feed.title]
                                            ELSE [ok |-> FALSE, v |-> maybe_feed.error]])
          ELSE resp' = Response("is_url_an_rss_feed", c, 0, p.status, NoBody, NoBody)
    /\ UNCHANGED <<users, usersOrder, session, collections, writer, task, snap, call>>

\* The answer has been sent to the client.
Respond ==
    /\ resp # NoResp
    /\ resp' = NoResp
    /\ UNCHANGED <<users, usersOrder, session, collections, writer, task, nops, snap, call>>

\* ---------------------------------------------------- the refresh worker

\* update_all_collections, up to its await: the urls of all collections are
\* united under the read lock, the lock is dropped and the fetch starts.
UpdateAllCollections ==
    /\ snap.server = "running"
    /\ resp = NoResp
    /\ task[Bg].pc = "idle"
    /\ nops < MaxOps
    /\ nops' = nops + 1
    /\ writer = NoTask
    /\ task' = [task EXCEPT ![Bg] =
          [IdleTask EXCEPT !.pc = "bg_fetch",
                           !.urls = UNION {DOMAIN collections[u] : u \in DOMAIN collections}]]
    /\ UNCHANGED <<users, usersOrder, session, collections, writer, resp, snap, call>>

\* update_all_collections, after its await: the batch is merged into every
\* collection under the write lock.
UpdateAllCollectionsMerge(answers) ==
    /\ snap.server = "running"
    /\ resp = NoResp
    /\ task[Bg].pc = "bg_fetch"
    /\ writer = NoTask
    /\ collections' = update_all_collections_merge(collections, task[Bg].urls,
                                                   request_feeds(task[Bg].urls, answers))
    /\ task' = [task EXCEPT ![Bg] = IdleTask]
    /\ UNCHANGED <<users, usersOrder, session, writer, nops, resp, snap, call>>

\* ------------------------------------------------------------ specification

HeaderValues(texts) == {NoText} \cup {SomeText(x) : x \in texts}

SetEntryReadRequests ==
    { [feed_url |-> url, entry_key |-> key, read |-> read]
      : url \in Urls, key \in Keys, read \in BOOLEAN }

SetFeedInfoRequests == { [feed_url |-> url, info |-> info] : url \in Urls, info \in InfoInputs }

Next ==
    \/ \E c \in Clients : TestAuthCookie(c)
    \/ \E c \in Clients : Logout(c)
    \/ \E c \in Clients, request \in SetEntryReadRequests : SetEntryRead(c, request)
    \/ \E c \in Clients, request \in SetFeedInfoRequests : SetFeedInfo(c, request)
    \/ \E c \in Clients, url \in Urls : AddFeed(c, url)
    \/ \E t \in Handlers, tags \in TagSets, answer \in Responses :
          AddFeedFetched(t, tags, answer)
    \/ \E c \in Clients, request \in FeedsRequests("None") : GetFeeds(c, request)
    \/ \E c \in Clients, answer \in Responses : IsUrlAnRssFeed(c, "A", answer)
    \/ Respond
    \/ \E c \in Clients : GetFeedsIncludeInfo(c)
    \/ \E c \in Clients : GetFeedsUpdate(c)
    \/ \E t \in Handlers : \E answers \in [task[t].urls -> Responses] :
          GetFeedsMerge(t, answers)
    \/ \E t \in Handlers : \E request \in FeedsRequests(task[t].action) :
          GetFeedsView(t, request)
    \/ UpdateAllCollections
    \/ \E answers \in [task[Bg].urls -> Responses] : UpdateAllCollectionsMerge(answers)

Spec == Init /\ [][Next]_vars

\* The users tables that auth.ron can hold for the users 1 and 2 (new_user and
\* the file put no condition on the names), with the orders in which the hash
\* map can be iterated.
UserInfos == [name : {"ann", "bob"}, password : Passwords]
AuthTables == [{1} -> UserInfos] \cup [{1, 2} -> UserInfos]
Orders(table) ==
    { order \in UNION {[1..n -> DOMAIN table] : n \in {Cardinality(DOMAIN table)}} :
        \A i, j \in DOMAIN order : order[i] = order[j] => i = j }

InitAuth ==
    /\ users \in AuthTables
    /\ usersOrder \in Orders(users)
    /\ session = StoredSessions
    /\ collections = EmptyMap
    /\ InitRest

\* The clients that log in and out.
AuthClients == {"c2", "c5"}

NextAuth ==
    \/ \E c \in AuthClients, user_name \in HeaderValues(UserNames),
          password \in HeaderValues(Passwords) : Login(c, user_name, password)
    \/ \E c \in AuthClients : Logout(c)
    \/ \E c \in AuthClients : TestAuthCookie(c)
    \/ Respond

SpecAuth == InitAuth /\ [][NextAuth]_vars

\* The dirty check of the snapshot worker that asks for a save at every tick.
is_dirty_always(new_hash, last_save_hash) == TRUE

\* The dirty check of the snapshot worker: new_hash != last_save_hash.
is_dirty(new_hash, last_save_hash) == new_hash # last_save_hash

\* The start of the snapshot worker that records no hash of the registry it
\* starts with.
saver_start_no_hash(s, colls) == [s EXCEPT !.pc = "sleep"]

\* spawn_periodic_saving_task, the start of the task: the hash of the
\* registry is recorded as last_save_hash.
saver_start(s, colls) ==
    [s EXCEPT !.pc = "sleep", !.last_save_hash = SomeHash(hash(colls))]

\* spawn_periodic_saving_task, one tick up to the call of save: the hash of
\* the registry is computed and compared with last_save_hash.
saver_tick(s, colls) ==
    LET new_hash == SomeHash(hash(colls))
    IN [s EXCEPT !.ticks = @ + 1,
                 !.new_hash = new_hash,
                 !.pc = IF is_dirty(new_hash, s.last_save_hash) THEN "save" ELSE "sleep"]

\* spawn_periodic_saving_task, the save of a tick: collections.save() and
\* last_save_hash = new_hash.  A panic of save ends the task.
saver_save(s, colls, outcome) ==
    LET r == save(s.file, colls, outcome)
    IN IF r.panics
       THEN [s EXCEPT !.pc = "dead"]
       ELSE [s EXCEPT !.pc = "sleep",
                      !.file = r.file,
                      !.warned = r.warned,
                      !.writes = IF r.written THEN @ + 1 ELSE @,
                      !.last_save_hash = s.new_hash]

\* main after the server's run has returned: `.run().await?` returns the
\* error of the run from main at once; after Ok the registry is saved and
\* main returns.  The tasks of the runtime end with main.
main_after_run(s, colls, result, outcome) ==
    IF result = "err"
    THEN [s EXCEPT !.server = "exited_err", !.pc = "dead"]
    ELSE LET r == save(s.file, colls, outcome)
         IN IF r.panics
            THEN [s EXCEPT !.server = "panicked", !.pc = "dead"]
            ELSE [s EXCEPT !.server = "exited_ok",
                           !.pc = "dead",
                           !.file = r.file,
                           !.warned = r.warned,
                           !.writes = IF r.written THEN @ + 1 ELSE @]

\* ------------------------------------------ the snapshot worker and shutdown

\* The snapshot worker starts.
SaverStart ==
    /\ snap.server = "running"
    /\ snap.pc = "start"
    /\ resp = NoResp
    /\ writer = NoTask
    /\ snap' = saver_start(snap, collections)
    /\ UNCHANGED <<users, usersOrder, session, collections, writer, task, nops, resp, call>>

\* A tick of the snapshot worker: the hash is taken under the read lock.
SaverTick ==
    /\ snap.server = "running"
    /\ snap.pc = "sleep"
    /\ snap.ticks < MaxTicks
    /\ resp = NoResp
    /\ writer = NoTask
    /\ snap' = saver_tick(snap, collections)
    /\ UNCHANGED <<users, usersOrder, session, collections, writer, task, nops, resp, call>>

\* The save of a tick: the registry is serialized under the read lock, as it
\* is at that moment.
SaverSave(outcome) ==
    /\ snap.server = "running"
    /\ snap.pc = "save"
    /\ resp = NoResp
    /\ writer = NoTask
    /\ snap' = saver_save(snap, collections, outcome)
    /\ UNCHANGED <<users, usersOrder, session, collections, writer, task, nops, resp, call>>

\* The server's run returns, with no request in work, and main goes on to
\* its end.
MainAfterRun(result, outcome) ==
    /\ snap.server = "running"
    /\ snap.pc # "start"
    /\ resp = NoResp
    /\ writer = NoTask
    /\ \A t \in Handlers : task[t].pc = "idle"
    /\ snap' = main_after_run(snap, collections, result, outcome)
    /\ UNCHANGED <<users, usersOrder, session, collections, writer, task, nops, resp, call>>

\* The server with its snapshot worker: requests that change the registry,
\* the background refresh, the ticks and saves of the worker, and shutdown.
NextSave ==
    \/ \E c \in {"c1", "c2"}, request \in SetEntryReadRequests : SetEntryRead(c, request)
    \/ Respond
    \/ UpdateAllCollections
    \/ \E answers \in [task[Bg].urls -> Responses] : UpdateAllCollectionsMerge(answers)
    \/ SaverStart
    \/ SaverTick
    \/ \E outcome \in SaveOutcomes : SaverSave(outcome)
    \/ \E result \in {"ok", "err"}, outcome \in SaveOutcomes : MainAfterRun(result, outcome)

SpecSave == Init /\ [][NextSave]_vars

\* Serialize and Deserialize for AuthData (derived): the users under the
\* lock, each with its name and password.  A UserInfo has no default: a
\* document without the users, or with a user that lacks a field, is refused.
AuthData_serialize(table) ==
    [users |-> [id \in DOMAIN table |->
                   [name |-> table[id].name, password |-> table[id].password]]]

AuthData_deserialize(doc) ==
    IF /\ "users" \in DOMAIN doc
       /\ \A id \in DOMAIN doc.users : {"name", "password"} \subseteq DOMAIN doc.users[id]
    THEN [ok |-> TRUE,
          v |-> [id \in DOMAIN doc.users |->
                    [name |-> doc.users[id].name, password |-> doc.users[id].password]]]
    ELSE [ok |-> FALSE, v |-> EmptyMap]

\* AuthData::default(): the one user 1, "test" with password "testing".
AuthData_default == 1 :> [name |-> "test", password |-> "testing"]

\* load_or_default of AuthData.
AuthData_load_or_default(file) ==
    IF file.some /\ ~file.torn /\ AuthData_deserialize(file.v).ok
    THEN AuthData_deserialize(file.v).v
    ELSE AuthData_default

\* What auth.ron can hold when main starts for the table `table` of the
\* earlier run, whose start has saved it: that table, nothing or a torn text.
AuthFiles(table) == {SomeFile(AuthData_serialize(table)), NoFile, TornFile}

\* ApplicationConfig: hostname, port, route_prefix and session_key.
ApplicationConfig(hostname, port, route_prefix, session_key) ==
    [hostname |-> hostname, port |-> port, route_prefix |-> route_prefix,
     session_key |-> session_key]

\* ApplicationConfig::default(), `generated` the session key that
\* cookie::Key::generate() makes.
ApplicationConfig_default(generated) == ApplicationConfig("localhost", 8443, "", generated)

\* Serialize and Deserialize for ApplicationConfig (derived,
\* #[serde(default)]): a field that the document lacks is that of a default
\* config, made for the occasion.
ApplicationConfig_serialize(config) ==
    [hostname |-> config.hostname, port |-> config.port,
     route_prefix |-> config.route_prefix, session_key |-> config.session_key]

ApplicationConfig_deserialize(doc, generated) ==
    LET default == ApplicationConfig_default(generated)
    IN ApplicationConfig(field(doc, "hostname", default.hostname),
                         field(doc, "port", default.port),
                         field(doc, "route_prefix", default.route_prefix),
                         field(doc, "session_key", default.session_key))

\* load_or_default of ApplicationConfig.
ApplicationConfig_load_or_default(file, generated) ==
    IF file.some /\ ~file.torn
    THEN ApplicationConfig_deserialize(file.v, generated)
    ELSE ApplicationConfig_default(generated)

\* Session keys and configs.
SessionKeys == {<<1>>, <<2>>}
ApplicationConfigs ==
    {ApplicationConfig(hostname, port, route_prefix, session_key) :
        hostname \in {"localhost", "feeds"}, port \in {8443, 80},
        route_prefix \in {"", "/feedreader"}, session_key \in SessionKeys}


\* main, started again after it has ended: the auth table and the registry
\* are what load_or_default makes of the files that the earlier run left, the
\* worker and the update task are spawned anew and every request of the
\* earlier run is gone.  The writes of collections.ron are counted over all
\* runs.
Restart(auth_file) ==
    /\ snap.server # "running"
    /\ nops < MaxOps
    /\ nops' = nops + 1
    /\ users' = AuthData_load_or_default(auth_file)
    /\ usersOrder' \in Orders(users')
    /\ collections' = load_or_default(snap.file)
    /\ snap' = [StartSnapshots(collections') EXCEPT !.file = snap.file, !.writes = snap.writes]
    /\ task' = [t \in Tasks |-> IdleTask]
    /\ writer' = NoTask
    /\ resp' = NoResp
    /\ UNCHANGED <<session, call>>

\* The server with its snapshot worker, over several runs of main: requests
\* that change the registry, the ticks and saves of the worker, shutdown and
\* the next start.
NextRestart ==
    \/ \E c \in {"c1", "c2"}, request \in SetEntryReadRequests : SetEntryRead(c, request)
    \/ Respond
    \/ SaverStart
    \/ SaverTick
    \/ \E outcome \in SaveOutcomes : SaverSave(outcome)
    \/ \E result \in {"ok", "err"}, outcome \in SaveOutcomes : MainAfterRun(result, outcome)
    \/ \E auth_file \in AuthFiles(users) : Restart(auth_file)

SpecRestart == Init /\ [][NextRestart]_vars

\* ------------------------------------------ handlers that share a worker

\* What RwLock::write() does on a thread that already holds the lock: it
\* blocks the thread for ever, or it panics.
RelockOutcomes == {"blocks", "panics"}

\* A worker thread is blocked in a blocking call.
ThreadBlocked == \E t \in Handlers : task[t].pc = "blocked"

\* get_feeds with UpdateFeeds, after the fetch, on the worker thread whose
\* other handler is suspended in add_feed's fetch with the write guard alive:
\* collections.write() is called on the thread that holds the lock.  A thread
\* that blocks polls no future any more; a panic ends the request unanswered.
GetFeedsMergeLocked(t, outcome) ==
    /\ resp = NoResp
    /\ task[t].pc = "uf_fetch"
    /\ writer \in Handlers \ {t}
    /\ task[writer].pc = "af_fetch"
    /\ task' = [task EXCEPT ![t] =
          IF outcome = "blocks" THEN [@ EXCEPT !.pc = "blocked"] ELSE IdleTask]
    /\ UNCHANGED <<users, usersOrder, session, collections, writer, nops, resp, snap, call>>

\* The server whose two handler slots are run by one worker thread, with
\* subscriptions, per-user refreshes and the background refresh: a blocked
\* worker thread runs no handler and sends no answer.
NextLive ==
    \/ ~ThreadBlocked /\ \E c \in {"c1", "c2"}, url \in Urls : AddFeed(c, url)
    \/ ~ThreadBlocked /\ \E t \in Handlers, tags \in TagSets, answer \in Responses :
                             AddFeedFetched(t, tags, answer)
    \/ ~ThreadBlocked /\ \E c \in {"c1", "c2"} : GetFeedsUpdate(c)
    \/ ~ThreadBlocked /\ \E t \in Handlers : \E answers \in [task[t].urls -> Responses] :
                             GetFeedsMerge(t, answers)
    \/ ~ThreadBlocked /\ \E t \in Handlers : \E request \in FeedsRequests(task[t].action) :
                             GetFeedsView(t, request)
    \/ ~ThreadBlocked /\ \E t \in Handlers, outcome \in RelockOutcomes :
                             GetFeedsMergeLocked(t, outcome)
    \/ ~ThreadBlocked /\ Respond
    \/ UpdateAllCollections
    \/ \E answers \in [task[Bg].urls -> Responses] : UpdateAllCollectionsMerge(answers)

\* Every task that can take a step is run in the end: a fetch returns within
\* its timeout and the runtime polls every future that is ready, as long as
\* its thread runs.
SpecLive == Init /\ [][NextLive]_vars /\ WF_vars(NextLive)

\* -------------------------------------------------- merges and the read flag

\* ------------------------------------------- library functions on their own

\* The bytes that sample keys are made of.
SampleBytes == {0, 3, 255}

\* Sample keys: 32 bytes that are all the same but for at most one.
EntryKeys ==
    { [i \in 1..KeyLen |-> IF i = p THEN b ELSE c]
      : p \in 1..KeyLen, b \in SampleBytes, c \in SampleBytes }

\* Byte strings of other lengths: prefixes of a key and a key with one or two
\* more bytes.
OtherByteStrings ==
    { SubSeq([i \in 1..KeyLen |-> b], 1, n) : b \in SampleBytes, n \in {0, 1, 2, 30, 31} }
    \cup { [i \in 1..KeyLen |-> b] \o tail
           : b \in SampleBytes, tail \in {<<3>>, <<3, 0>>} }

\* Texts that are no base64: a character outside the alphabet, padding in
\* the middle, one character left over, a last character with stray bits.
CorruptedStrings ==
    LET text == base64_encode([i \in 1..KeyLen |-> 3])
    IN { [text EXCEPT ![p] = c] : p \in {1, 20, 43}, c \in {BadChar, Pad} }
       \cup { SubSeq(text, 1, 41), text \o <<0>>, [text EXCEPT ![43] = 1] }

\* The strings handed to the deserializer of EntryKey.
KeyStrings ==
    { base64_encode(bytes) : bytes \in EntryKeys \cup OtherByteStrings }
    \cup CorruptedStrings

\* A call of a library function with its arguments and its result.
Call(fn, args, result) == [fn |-> fn, args |-> args, result |-> result]

\* EntryKey is serialized.
EntryKeySerialize(key) ==
    /\ call = NoCall
    /\ call' = Call("EntryKey::serialize", <<key>>, EntryKey_serialize(key))
    /\ UNCHANGED <<users, usersOrder, session, collections, writer, task, nops, resp, snap>>

\* A string is deserialized as an EntryKey.
EntryKeyDeserialize(string) ==
    /\ call = NoCall
    /\ call' = Call("EntryKey::deserialize", <<string>>, EntryKey_deserialize(string))
    /\ UNCHANGED <<users, usersOrder, session, collections, writer, task, nops, resp, snap>>

\* Entries whose keys are taken: titles and links that share bytes, with and
\* without link, with different dates and read flags.
KeyEntries ==
    [title : {<< >>, <<1>>, <<1, 2>>},
     link : {NoneStr, SomeStr(<< >>), SomeStr(<<2>>), SomeStr(<<1, 2>>)},
     pub_date : {default_date, 2},
     read : BOOLEAN]

\* The key of an entry is taken.
FromEntry(entry) ==
    /\ call = NoCall
    /\ call' = Call("EntryKey::from_entry", <<entry>>, from_entry(entry))
    /\ UNCHANGED <<users, usersOrder, session, collections, writer, task, nops, resp, snap>>

\* Maps of stored entries: for some of the items upstream can hold, the entry
\* as it was fetched, read or not.
SampleEntryMaps ==
    UNION { { [k \in { from_raw_feed_entry(item).key : item \in stored } |->
                 LET item == CHOOSE i \in stored : from_raw_feed_entry(i).key = k
                 IN StoredEntry(item, item \in read)]
              : read \in SUBSET stored }
            : stored \in SUBSET Items }

\* Feeds that a merge is applied to.
SampleFeeds ==
    { RssFeed(FeedInfo("News", {}, r), entries)
      : r \in {Ok, Err(FetchErrorText)}, entries \in SampleEntryMaps }

\* The result of a fetch is merged into a feed.
UpdateEntries(feed, maybe_entries) ==
    /\ call = NoCall
    /\ call' = Call("RssFeed::update_entries", <<feed, maybe_entries>>,
                    update_entries(feed, maybe_entries))
    /\ UNCHANGED <<users, usersOrder, session, collections, writer, task, nops, resp, snap>>

\* The items behind the entries of the collections that are viewed: the two
\* that upstream holds, one with the date and the title of the first and no
\* link, and one with the date of the first and another title.
ViewItems ==
    Items \cup { Item(SomeStr(<<1>>), << >>, SomeDate(2), NoneDate),
                 Item(SomeStr(<<3>>), << >>, NoneDate, SomeDate(2)) }

\* The maps of stored entries over a set of items, each entry read or not.
EntryMapsOf(items) ==
    UNION { { [k \in { from_raw_feed_entry(item).key : item \in stored } |->
                 LET item == CHOOSE i \in stored : from_raw_feed_entry(i).key = k
                 IN StoredEntry(item, item \in read)]
              : read \in SUBSET stored }
            : stored \in SUBSET items }

\* The collections that are viewed: feed A with or without the tag and
\* with up to three entries, and feed B, when there, with that tag or
\* another and with at most one entry, which feed A may hold as well.
ViewCollections ==
    LET feedsA == { RssFeed(FeedInfo("News", tags, Ok), entries)
                    : tags \in {{}, {"t"}},
                      entries \in { m \in EntryMapsOf(ViewItems) : Cardinality(DOMAIN m) <= 3 } }
        feedsB == { RssFeed(FeedInfo("Other", tags, Err(FetchErrorText)), entries)
                    : tags \in {{"t"}, {"u"}},
                      entries \in { m \in EntryMapsOf(Items) : Cardinality(DOMAIN m) <= 1 } }
    IN { "A" :> a : a \in feedsA }
       \cup { "B" :> b : b \in feedsB }
       \cup { ("A" :> a) @@ ("B" :> b) : a \in feedsA, b \in feedsB }

\* The feed filters of a view: All, a tag that feeds carry and one that none
\* carries, a feed that may be there and one that never is.
ViewFilters ==
    {FilterAll, FilterTag("t"), FilterTag("x"), FilterSingle("A"), FilterSingle("B"),
     FilterSingle("C")}

\* A collection is viewed: one of the orders that the sort can leave.
View(collection, amount, feed_filter, entry_filter) ==
    /\ call = NoCall
    /\ \E r \in get_sorted_com_entries_with_filter(collection, amount, feed_filter, entry_filter) :
          call' = Call("RssCollection::get_sorted_com_entries_with_filter",
                       <<collection, amount, feed_filter, entry_filter>>, r)
    /\ UNCHANGED <<users, usersOrder, session, collections, writer, task, nops, resp, snap>>

\* No server runs: the library functions are called on their own.
InitFn ==
    /\ users = StoredUsers
    /\ usersOrder = <<1, 2>>
    /\ session = StoredSessions
    /\ collections = EmptyMap
    /\ InitRest

NextFn ==
    \/ call = NoCall /\ \E key \in EntryKeys : EntryKeySerialize(key)
    \/ call = NoCall /\ \E string \in KeyStrings : EntryKeyDeserialize(string)
    \/ call = NoCall /\ \E entry \in KeyEntries : FromEntry(entry)
    \/ call = NoCall /\ \E collection \in ViewCollections, amount \in 0..MaxAmount,
                            feed_filter \in ViewFilters, entry_filter \in {"All", "Unread"} :
                            View(collection, amount, feed_filter, entry_filter)
    \/ call = NoCall /\ \E feed \in SampleFeeds, maybe_feed \in FeedResults :
                            UpdateEntries(feed, maybe_entries_of(maybe_feed))

SpecFn == InitFn /\ [][NextFn]_vars

\* The step in which a task applies its refresh merge: a handler leaves the
\* await of its per-user refresh, or the worker that of its background refresh.
UserMergeStep(t) == task[t].pc = "uf_fetch" /\ task'[t].pc # "uf_fetch"
BgMergeStep == task[Bg].pc = "bg_fetch" /\ task'[Bg].pc # "bg_fetch"
MergeStep == BgMergeStep \/ \E t \in Handlers : UserMergeStep(t)

\* The step in which add_feed inserts the feed it subscribed to.
SubscribeStep == \E t \in Handlers : task[t].pc = "af_fetch" /\ task'[t].pc # "af_fetch"

\* The <<user, url, key>> of the entries a registry stores.
StoredKeys(colls) ==
    { p \in (DOMAIN colls) \X Urls \X Keys :
        /\ p[2] \in DOMAIN colls[p[1]]
        /\ p[3] \in DOMAIN colls[p[1]][p[2]].entries }

EntryAt(colls, p) == colls[p[1]][p[2]].entries[p[3]]

\* C1: a refresh merge, successful or failed, keeps every stored key of every
\* feed, and every stored key keeps exactly its stored entry (title, link,
\* pub_date, read): a fetched entry whose key is stored already is discarded.
C1_MergeKeepsStoredEntries ==
    [][MergeStep =>
         \A p \in StoredKeys(collections) :
            /\ p \in StoredKeys(collections')
            /\ EntryAt(collections', p) = EntryAt(collections, p)]_vars

\* A per-user refresh has merged a batch that held the key of an entry that
\* was stored as read, and the entry is still stored as read.
C1_Witness ==
    \E t \in Handlers :
       /\ task[t].pc = "view"
       /\ \E p \in task[t].seen :
             /\ <<task[t].user, p[1], p[2]>> \in StoredKeys(collections)
             /\ EntryAt(collections, <<task[t].user, p[1], p[2]>>).read

\* C2: an entry that is stored as read is still stored, and as read, after
\* every step that is no set_entry_read: after the merges of per-user and of
\* background refreshes in any interleaving, also the merge of a fetch that
\* started before the entry was marked.
C2_ReadSurvivesRefresh ==
    [][resp'.op # "set_entry_read" =>
         \A p \in StoredKeys(collections) :
            EntryAt(collections, p).read =>
               /\ p \in StoredKeys(collections')
               /\ EntryAt(collections', p).read]_vars

\* A per-user refresh took its urls, then set_entry_read marked an entry read,
\* then the merge found the key of that entry in the fetched batch: the entry
\* is stored as read.
C2_Witness ==
    \E t \in Handlers :
       /\ task[t].pc = "view"
       /\ \E p \in task[t].marked \cap task[t].seen :
             /\ <<task[t].user, p[1], p[2]>> \in StoredKeys(collections)
             /\ EntryAt(collections, <<task[t].user, p[1], p[2]>>).read

\* C3: no task holds the registry lock while it awaits a feed fetch, in the
\* per-user refresh, in the background refresh and in add_feed.
C3_NoLockAcrossFetch ==
    \A t \in Tasks : task[t].pc \in {"uf_fetch", "bg_fetch", "af_fetch"} => writer # t

\* C4: last_update_result of a stored feed is written only by the merge of a
\* refresh and by the subscription: no other step changes it.
C4_ResultWrittenOnlyByRefresh ==
    [][~(MergeStep \/ SubscribeStep) =>
         \A u \in DOMAIN collections : \A url \in DOMAIN collections[u] :
            collections'[u][url].info.last_update_result =
               collections[u][url].info.last_update_result]_vars

\* C5: for every stored feed, update_entries with Err(msg) leaves the entries
\* (and name and tags) as they are and sets last_update_result to Err(msg);
\* with Ok(entries) it sets last_update_result to Ok; and a failed merge
\* followed by a successful one ends with Ok and with every entry that was
\* stored before.
C5_UpdateEntriesResult ==
    \A u \in DOMAIN collections : \A url \in DOMAIN collections[u] :
       LET feed == collections[u][url]
       IN /\ \A msg \in {FetchErrorText, full_error_to_string(FetchErrorText), NoResultText} :
                update_entries(feed, ErrEntries(msg)) =
                   [feed EXCEPT !.info.last_update_result = Err(msg)]
          /\ \A maybe \in FeedResults :
                maybe.ok =>
                   LET after == update_entries(update_entries(feed, ErrEntries(FetchErrorText)),
                                               OkEntries(maybe.entries))
                   IN /\ update_entries(feed, OkEntries(maybe.entries)).info.last_update_result = Ok
                      /\ after.info.last_update_result = Ok
                      /\ DOMAIN feed.entries \subseteq DOMAIN after.entries
                      /\ [k \in DOMAIN feed.entries |-> after.entries[k]] = feed.entries

\* A per-user refresh has merged a failed fetch into a feed that stores
\* entries: the feed carries the error of that fetch and still stores them.
C5_Witness ==
    \E t \in Handlers :
       /\ task[t].pc = "view"
       /\ task[t].action = "UpdateFeeds"
       /\ task[t].user \in DOMAIN collections
       /\ \E url \in DOMAIN collections[task[t].user] :
             /\ collections[task[t].user][url].info.last_update_result =
                   Err(full_error_to_string(FetchErrorText))
             /\ DOMAIN collections[task[t].user][url].entries # {}

\* ------------------------------------------------------ users and isolation

\* The user whose session the cookie of client c carries: the users of the
\* table whose id, written as a decimal, is the identity of the session.
SessionUsers(c) ==
    IF session[c].some
    THEN {u \in DOMAIN users : UserId_to_string(u) = session[c].v}
    ELSE {}

\* The step runs set_entry_read, set_feed_info, add_feed or the refresh of
\* /feeds with UpdateFeeds for user u: it answers a request of u, or it moves
\* a handler into or out of the fetch of a request of u.
StepFor(u) ==
    \/ resp'.user = u /\ resp'.op \in {"set_entry_read", "set_feed_info", "add_feed"}
    \/ \E t \in Handlers :
          \/ /\ task[t].pc = "idle"
             /\ task'[t].pc \in {"af_fetch", "uf_fetch"}
             /\ task'[t].user = u
          \/ /\ task[t].pc \in {"af_fetch", "uf_fetch"}
             /\ task'[t].pc # task[t].pc
             /\ task[t].user = u

\* Every collection but that of user u is the same before and after the step.
OthersUnchanged(u) ==
    /\ (DOMAIN collections') \ {u} = (DOMAIN collections) \ {u}
    /\ \A v \in (DOMAIN collections) \ {u} : collections'[v] = collections[v]

\* C6: set_entry_read, set_feed_info, add_feed and /feeds with UpdateFeeds run
\* for user U leave the collection of every other user as it is.
C6_OtherUsersUnchanged ==
    [][\A u \in DOMAIN users : StepFor(u) => OthersUnchanged(u)]_vars

\* set_feed_info of user 1 has renamed the feed that user 2 has under the same
\* url, and the feed of user 2 has the name it had.
C6_Witness ==
    /\ resp.op = "set_feed_info"
    /\ resp.status = 200
    /\ resp.user = 1
    /\ 2 \in DOMAIN collections
    /\ resp.request.feed_url \in DOMAIN collections[2]
    /\ collections[1][resp.request.feed_url].info.name = "Mine"
    /\ collections[2][resp.request.feed_url].info.name = "News"

\* The registry with the collections of every user but u taken away.
OnlyOf(u) == [v \in (DOMAIN collections) \cap {u} |-> collections[v]]

\* The body of a /feeds answer holds entries and infos of the feeds of user u
\* only: every entry is the stored entry of a feed of u, and feeds_info names
\* urls of u.
FromOwnFeeds(u, body) ==
    /\ \A i \in 1..Len(body.feed_entries) :
          LET e == body.feed_entries[i]
          IN /\ e.feed_url \in DOMAIN collections[u]
             /\ e.key \in DOMAIN collections[u][e.feed_url].entries
             /\ e = ComFeedEntry(e.feed_url, e.key, collections[u][e.feed_url].entries[e.key])
    /\ body.total_available <=
          Cardinality({p \in StoredKeys(collections) : p[1] = u})
    /\ DOMAIN body.feeds_info.v \subseteq DOMAIN collections[u]

\* C7: the /feeds answer for user U holds only entries and infos of feeds of
\* U's own collection, and the answers to a request are the same in the
\* registry and in the registry without the collections of the other users.
C7_FeedsOnlyOwn ==
    /\ (resp.op = "feeds" /\ resp.status = 200) =>
          FromOwnFeeds(resp.user, resp.body)
    /\ resp.op = "feeds" /\ resp.user \in DOMAIN users =>
          LET request == resp.request
              alone == get_feeds_response(OnlyOf(resp.user), resp.user, request.amount,
                                          request.filter, request.entry_filter,
                                          resp.body.feeds_info)
          IN /\ [status |-> resp.status, body |-> resp.body] \in alone
             /\ alone = get_feeds_response(collections, resp.user, request.amount,
                                           request.filter, request.entry_filter,
                                           resp.body.feeds_info)

\* /feeds with the filter All has answered a user with entries, while another
\* user has a feed with an entry under a url that the caller does not have.
C7_Witness ==
    /\ resp.op = "feeds"
    /\ resp.status = 200
    /\ resp.request.filter = FilterAll
    /\ Len(resp.body.feed_entries) > 0
    /\ \E p \in StoredKeys(collections) :
          p[1] # resp.user /\ p[2] \notin DOMAIN collections[resp.user]

\* The feed of the request is not in the collection of user u, or for
\* set_entry_read the entry is not in that feed.
NotInCollection(u, feed_url) ==
    u \notin DOMAIN collections \/ feed_url \notin DOMAIN collections[u]
NoSuchEntry(u, request) ==
    \/ NotInCollection(u, request.feed_url)
    \/ request.entry_key \notin DOMAIN collections[u][request.feed_url].entries

\* C8: set_entry_read and set_feed_info that name a feed that is not in the
\* caller's collection (set_entry_read also an entry that is not in the feed),
\* whether or not another user has it, are answered 401 and leave the whole
\* registry as it is.
C8_NotOwnedIsRefused ==
    [][\A c \in Clients : \A u \in SessionUsers(c) :
          /\ \A request \in SetEntryReadRequests :
                (resp'.op = "set_entry_read" /\ SetEntryRead(c, request)
                 /\ NoSuchEntry(u, request))
                   => resp'.status = 401 /\ collections' = collections
          /\ \A request \in SetFeedInfoRequests :
                (resp'.op = "set_feed_info" /\ SetFeedInfo(c, request)
                 /\ NotInCollection(u, request.feed_url))
                   => resp'.status = 401 /\ collections' = collections]_vars

\* set_entry_read of a user for an entry of a feed that only another user has
\* was answered 401, and the entry of the other user is stored as it was.
C8_Witness ==
    /\ resp.op = "set_entry_read"
    /\ resp.status = 401
    /\ \E v \in DOMAIN collections :
          /\ v # resp.user
          /\ resp.user \in DOMAIN users
          /\ NotInCollection(resp.user, resp.request.feed_url)
          /\ <<v, resp.request.feed_url, resp.request.entry_key>> \in StoredKeys(collections)
          /\ resp.request.read #
                EntryAt(collections, <<v, resp.request.feed_url, resp.request.entry_key>>).read

Matching(user_name, password) ==
    IF user_name.some /\ password.some
    THEN {u \in DOMAIN users :
            users[u].name = user_name.v /\ users[u].password = password.v}
    ELSE {}

\* The user that a search of the table by name finds: the first of that name
\* in the order of the table.
FirstNamed(user_name) ==
    IF user_name.some
    THEN {u \in DOMAIN users :
            /\ users[u].name = user_name.v
            /\ \A i, j \in DOMAIN usersOrder :
                  (usersOrder[i] = u /\ users[usersOrder[j]].name = user_name.v) => i <= j}
    ELSE {}

UniqueNames == \A u, v \in DOMAIN users : users[u].name = users[v].name => u = v

\* login answers 200 and binds the session to a user of `accepted` when there
\* is one, and otherwise answers 401 and leaves the session as it is.
LoginAccepts(c, accepted) ==
    /\ resp'.status = 200 <=> accepted # {}
    /\ resp'.status = 200 => \E u \in accepted : session'[c] = SomeText(UserId_to_string(u))
    /\ resp'.status # 200 => resp'.status = 401 /\ session' = session

C11_LoggedOutSessionRefused ==
    [][\A c \in Clients :
          (resp'.op = "logout" /\ resp'.client = c /\ resp'.status = 200) =>
             ~Authenticated_from_request(
                  AuthenticateMiddleware_call(users', session[c])).ok]_vars

\* A login step of client c whose request lacks the user-name header or the
\* password header.
LoginWithoutHeaders(c) ==
    /\ resp'.op = "login"
    /\ resp'.client = c
    /\ ~ (resp'.request.user_name.some /\ resp'.request.password.some)

\* C12 as stated: a login request that lacks the user-name header or the
\* password header is answered 400 and creates no session.
C12_MissingHeaderBadRequest ==
    [][\A c \in Clients :
          LoginWithoutHeaders(c) => resp'.status = 400 /\ session' = session]_vars

\* C12, amended: a login request that lacks the user-name header or the
\* password header is answered 401 and creates no session: the session of
\* the client stays what it was.
C12_MissingHeaderUnauthorized ==
    [][\A c \in Clients :
          LoginWithoutHeaders(c) => resp'.status = 401 /\ session' = session]_vars

\* A login without the password header has been answered, for a name and a
\* client with no session that would have been accepted with the password.
C12_Witness ==
    /\ resp.op = "login"
    /\ resp.request.user_name.some
    /\ ~ resp.request.password.some
    /\ \E u \in DOMAIN users : users[u].name = resp.request.user_name.v
    /\ session[resp.client] = NoText
    /\ resp.status = 401

\* The batches request_feeds would be if it held no result for the urls of
\* `missing`: a result for each other url of the snapshot.
BatchesWithout(urls, missing) ==
    { request_feeds(urls \ missing, answers) : answers \in [urls \ missing -> Responses] }

\* C13: the merge of a per-user refresh leaves the set of urls of the caller's
\* collection as it is, applies to each feed whose url was snapshotted one
\* update_entries with a result of the fetch, and leaves every feed whose url
\* was not snapshotted (added since) as it is; and were the batch to hold no
\* result for a snapshotted url, that feed is merged with the explicit error.
C13_RefreshMergesSnapshotOnce ==
    /\ [][\A t \in Handlers :
            (UserMergeStep(t) /\ task[t].user \in DOMAIN collections) =>
               LET u == task[t].user
               IN /\ DOMAIN collections'[u] = DOMAIN collections[u]
                  /\ \A url \in DOMAIN collections[u] :
                        IF url \in task[t].urls
                        THEN \E r \in FeedResults :
                                collections'[u][url] =
                                   update_entries(collections[u][url], maybe_entries_of(r))
                        ELSE collections'[u][url] = collections[u][url]]_vars
    /\ [](\A t \in Handlers :
            (task[t].pc = "uf_fetch" /\ task[t].user \in DOMAIN collections) =>
               LET u == task[t].user
                   urls == task[t].urls
               IN \A missing \in (SUBSET urls) \ {{}} :
                     \A feeds \in BatchesWithout(urls, missing) :
                        \A url \in missing \cap DOMAIN collections[u] :
                           get_feeds_update(collections, u, urls, feeds).collections[u][url]
                              = update_entries(collections[u][url], ErrEntries(NoResultText)))

\* A per-user refresh has merged its batch into a collection that holds a
\* feed under a url that was not in the snapshot: the feed was added while
\* the fetch was awaited.
C13_Witness ==
    \E t \in Handlers :
       /\ task[t].pc = "view"
       /\ task[t].action = "UpdateFeeds"
       /\ task[t].urls # {}
       /\ task[t].user \in DOMAIN collections
       /\ \E url \in DOMAIN collections[task[t].user] : url \notin task[t].urls

\* maybe_entries of the merge loop of update_all_collections: the entries of
\* a fetched feed, or error.to_string() of the fetch.
background_maybe_entries(maybe_feed_update) ==
    IF maybe_feed_update.ok THEN OkEntries(maybe_feed_update.entries)
    ELSE ErrEntries(maybe_feed_update.error)

C16_ErrorStatusIsFetchError ==
    [][\A t \in Handlers : \A answers \in [task[t].urls -> Responses] :
          GetFeedsMerge(t, answers) =>
             \A url \in task[t].urls :
                (/\ answers[url].status \notin 200..299
                 /\ task[t].user \in DOMAIN collections
                 /\ url \in DOMAIN collections[task[t].user]) =>
                   /\ ~ collections'[task[t].user][url].info.last_update_result.ok
                   /\ collections'[task[t].user][url].entries
                         = collections[task[t].user][url].entries]_vars

\* request_feeds returns a map with exactly the requested urls as its keys.
RequestFeedsIsTotal ==
    \A urls \in SUBSET Urls : \A answers \in [urls -> Responses] :
       DOMAIN request_feeds(urls, answers) = urls

\* C15: request_feeds holds one result for every requested url; in the merge
\* of a per-user refresh each snapshotted feed is merged with its own result
\* whatever the results of the other urls are: a feed whose fetch succeeded
\* is merged with the fetched entries, a feed whose fetch failed changes in
\* its last_update_result only, which becomes the error; and the /feeds
\* request of a caller with a collection is answered 200.
C15_FailedFetchStaysLocal ==
    /\ [][\A t \in Handlers :
            (UserMergeStep(t) /\ task[t].user \in DOMAIN collections) =>
               LET u == task[t].user
               IN \E feeds \in [task[t].urls -> FeedResults] :
                     \A url \in task[t].urls \cap DOMAIN collections[u] :
                        collections'[u][url] =
                           IF feeds[url].ok
                           THEN update_entries(collections[u][url],
                                               OkEntries(feeds[url].entries))
                           ELSE [collections[u][url] EXCEPT
                                   !.info.last_update_result =
                                      Err(full_error_to_string(feeds[url].error))]]_vars
    /\ [](RequestFeedsIsTotal
          /\ ((resp.op = "feeds" /\ resp.user \in DOMAIN collections) => resp.status = 200))

\* The first operation, a per-user refresh of user 2, has been answered 200:
\* the fetch of feed B failed in it and that of feed A succeeded, B carries
\* the error and A Ok, and the answer serves the entry B stored before.
C15_Witness ==
    /\ nops = 1
    /\ resp.op = "feeds"
    /\ resp.status = 200
    /\ resp.user = 2
    /\ resp.request.additional_action = "UpdateFeeds"
    /\ collections[2]["B"].info.last_update_result = Err(full_error_to_string(FetchErrorText))
    /\ collections[2]["A"].info.last_update_result = Ok
    /\ Cardinality(DOMAIN collections[2]["A"].entries) > 1
    /\ \E i \in 1..Len(resp.body.feed_entries) : resp.body.feed_entries[i].feed_url = "B"
    /\ resp.body.feeds_info.v["B"].last_update_result = Err(full_error_to_string(FetchErrorText))

\* ------------------------------------------------------------------ C17

\* A step that is a tick of the snapshot worker, up to its decision.
TickStep == snap.pc = "sleep" /\ snap'.ticks = snap.ticks + 1

\* A step in which the snapshot worker starts.
WorkerStartStep == snap.pc = "start" /\ snap'.pc # "start"

\* A step that is the save of a tick of the snapshot worker.
WorkerSaveStep == snap.pc = "save" /\ snap.server = "running" /\ snap'.server = "running" /\ snap'.pc # "save"

\* A step that is the end of main.
ShutdownStep == snap.server = "running" /\ snap'.server # "running"

C18_OneStartupWrite ==
    (snap.server = "running" /\ snap.loaded # EmptyMap /\ nops = 0 /\ snap.ticks >= 2)
        => snap.writes = 1

\* C18 (amended): main loads the registry and does not save it, and the
\* worker starts from the hash of the loaded registry: while the hashed
\* content is the loaded one, after at most one request or refresh, the file
\* has not been written at all.
C18_NoWriteWhileUnchanged ==
    (snap.server = "running" /\ nops <= 1 /\ hash(collections) = hash(snap.loaded))
        => /\ snap.writes = 0
           /\ snap.file = StartSnapshots(snap.loaded).file
           /\ snap.pc \in {"start", "sleep"}

\* C18: a non-empty registry was loaded, nothing has changed it and two ticks
\* have passed.
C18_Witness ==
    /\ snap.server = "running"
    /\ snap.loaded # EmptyMap
    /\ nops = 0
    /\ snap.ticks >= 2
    /\ snap.writes = 0

\* ------------------------------------------------------------------ C19

\* C19: when the server's run has returned, whatever its result, main calls
\* save on the registry: the file then holds the registry as it is, or the
\* save has warned or panicked.
C19_ShutdownAlwaysSaves ==
    [][ShutdownStep =>
          \/ snap'.server = "panicked"
          \/ snap'.writes = snap.writes + 1 /\ snap'.file = SomeFile(to_string_pretty(collections))
          \/ snap'.writes = snap.writes /\ snap'.warned]_vars

\* ------------------------------------------------------------------ C20

\* C20: a failure of save ends neither the snapshot worker nor the process:
\* after the save of a tick the worker sleeps until its next tick with the
\* registry untouched, and main never panics in its final save.
C20_SaveFailureNeverFatal ==
    /\ [][WorkerSaveStep => (snap'.pc = "sleep" /\ collections' = collections)]_vars
    /\ [](snap.server # "panicked")

\* ------------------------------------------------------------------ C30

\* C30: the text that an EntryKey is serialized to deserializes to the same
\* 32 bytes; the base64 text of a byte string deserializes exactly when the
\* byte string has 32 bytes, and then to those bytes; a text that is no
\* base64 is refused.
C30_EntryKeyRoundTrip ==
    /\ call.fn = "EntryKey::serialize" =>
          /\ Len(call.args[1]) = KeyLen
          /\ EntryKey_deserialize(call.result) = [ok |-> TRUE, key |-> call.args[1]]
    /\ call.fn = "EntryKey::deserialize" =>
          /\ \A bytes \in EntryKeys \cup OtherByteStrings :
                call.args[1] = base64_encode(bytes) =>
                   /\ call.result.ok = (Len(bytes) = KeyLen)
                   /\ call.result.ok => call.result.key = bytes
          /\ call.args[1] \in CorruptedStrings => ~call.result.ok
          /\ call.result.ok => Len(call.result.key) = KeyLen

\* C30: a text that decodes to 31 bytes has been refused, and so the
\* round trip of a key has been made.
C30_Witness ==
    /\ call.fn = "EntryKey::deserialize"
    /\ ~call.result.ok
    /\ base64_decode(call.args[1]).ok
    /\ Len(base64_decode(call.args[1]).bytes) = KeyLen - 1

\* ------------------------------------------------------------------ C27

\* C27: an entry that differs from another in its title or in its link,
\* an absent link differing from every present one, has a different key.
C27_DifferentEntriesDifferentKeys ==
    call.fn = "EntryKey::from_entry" =>
        \A other \in KeyEntries :
            (other.title # call.args[1].title \/ other.link # call.args[1].link)
                => from_entry(other) # call.result

\* ------------------------------------------------------------------ C28

\* C28: the key of an entry is the key of every entry with the same title
\* and the same link, whatever their dates and read flags, and taking the key
\* again gives the same key.
C28_KeyOfTitleAndLink ==
    call.fn = "EntryKey::from_entry" =>
        /\ from_entry(call.args[1]) = call.result
        /\ \A other \in KeyEntries :
              (other.title = call.args[1].title /\ other.link = call.args[1].link)
                  => from_entry(other) = call.result

\* C28: the key of a read entry with a link and a date of its own has been
\* taken.
C28_Witness ==
    /\ call.fn = "EntryKey::from_entry"
    /\ call.args[1].read
    /\ call.args[1].link.some
    /\ call.args[1].pub_date # default_date
    /\ \E other \in KeyEntries :
          /\ other # call.args[1]
          /\ other.title = call.args[1].title
          /\ other.link = call.args[1].link

\* ------------------------------------------------------------------ C29

\* C29: merging the same successful fetch result into a feed a second time
\* changes nothing: the feed after two merges is the feed after one.
C29_MergeTwiceIsMergeOnce ==
    (call.fn = "RssFeed::update_entries" /\ call.args[2].ok) =>
        update_entries(call.result, call.args[2]) = call.result

\* C29: a successful fetch with a new entry has been merged into a feed that
\* stores an entry and whose last refresh had failed.
C29_Witness ==
    /\ call.fn = "RssFeed::update_entries"
    /\ call.args[2].ok
    /\ ~call.args[1].info.last_update_result.ok
    /\ DOMAIN call.args[1].entries # {}
    /\ DOMAIN call.result.entries # DOMAIN call.args[1].entries

\* ------------------------------------------------------------ C22 and C23

\* The call recorded is a view of a collection.
IsView == call.fn = "RssCollection::get_sorted_com_entries_with_filter"

\* The (url, key) pairs of the entries of collection `c` that the filters of
\* a view let through.
MatchingEntries(c, feed_filter, entry_filter) ==
    { p \in UNION { {<<url, k>> : k \in DOMAIN c[url].entries} : url \in DOMAIN c } :
        /\ \/ feed_filter.kind = "All"
           \/ feed_filter.kind = "Tag" /\ feed_filter.arg \in c[p[1]].info.tags
           \/ feed_filter.kind = "Single" /\ feed_filter.arg = p[1]
        /\ entry_filter = "Unread" => ~c[p[1]].entries[p[2]].read }

\* Entry a is not greater than entry b: a is newer, or as old with a smaller
\* title, or with the same title and a smaller link (none before any), or
\* with the same link and unread where b is read, or alike with a key that is
\* not greater.
NotGreater(a, b) ==
    \/ a.pub_date > b.pub_date
    \/ /\ a.pub_date = b.pub_date
       /\ \/ StrCmp(a.title, b.title) < 0
          \/ /\ a.title = b.title
             /\ \/ (~a.link.some /\ b.link.some)
                \/ (a.link.some /\ b.link.some /\ StrCmp(a.link.v, b.link.v) < 0)
                \/ /\ a.link = b.link
                   /\ \/ (~a.read /\ b.read)
                      \/ (a.read = b.read /\ StrCmp(a.key, b.key) <= 0)

\* C22: a view returns as total the number of entries of the selected feeds
\* that pass the entry filter, and a list of min(amount, total) of them, each
\* once and as it is stored, with no entry left out that belongs before a
\* listed one.
C22_ViewCountsAndTruncates ==
    IsView =>
        LET c == call.args[1]
            amount == call.args[2]
            matching == MatchingEntries(c, call.args[3], call.args[4])
            list == call.result.entries
            listed == { <<list[i].feed_url, list[i].key>> : i \in 1..Len(list) }
        IN /\ call.result.total = Cardinality(matching)
           /\ Len(list) = (IF amount < call.result.total THEN amount ELSE call.result.total)
           /\ listed \subseteq matching
           /\ Cardinality(listed) = Len(list)
           /\ \A i \in 1..Len(list) :
                 list[i] = ComFeedEntry(list[i].feed_url, list[i].key,
                                        c[list[i].feed_url].entries[list[i].key])
           /\ \A i \in 1..Len(list) : \A p \in matching \ listed :
                 NotGreater(list[i], ComFeedEntry(p[1], p[2], c[p[1]].entries[p[2]]))

\* C22: a view by tag of the unread entries has left out a feed without the
\* tag and a read entry, and has returned fewer entries than it counted.
C22_Witness ==
    /\ IsView
    /\ call.args[3] = FilterTag("t")
    /\ call.args[4] = "Unread"
    /\ \E url \in DOMAIN call.args[1] :
          /\ "t" \notin call.args[1][url].info.tags
          /\ \E k \in DOMAIN call.args[1][url].entries : ~call.args[1][url].entries[k].read
    /\ \E url \in DOMAIN call.args[1] :
          /\ "t" \in call.args[1][url].info.tags
          /\ \E k \in DOMAIN call.args[1][url].entries : call.args[1][url].entries[k].read
    /\ call.result.total = 2
    /\ Len(call.result.entries) = 1

\* C23: in the list of a view no entry stands before one that it is greater
\* than: newest first, then by title, by link with none first, unread before
\* read, and by key.
C23_ViewIsSorted ==
    IsView =>
        \A i, j \in 1..Len(call.result.entries) :
            i < j => NotGreater(call.result.entries[i], call.result.entries[j])

\* C23: a view of three entries has listed two entries of one date and one
\* title, the one without link first, and has cut off the older third.
C23_Witness ==
    /\ IsView
    /\ call.result.total = 3
    /\ Len(call.result.entries) = 2
    /\ call.result.entries[1].pub_date = call.result.entries[2].pub_date
    /\ call.result.entries[1].title = call.result.entries[2].title
    /\ ~call.result.entries[1].link.some
    /\ call.result.entries[2].link.some
    /\ \E url \in DOMAIN call.args[1] : \E k \in DOMAIN call.args[1][url].entries :
          call.args[1][url].entries[k].pub_date < call.result.entries[2].pub_date

\* ------------------------------------------------------------------ C24

\* C24: no step of the server removes a collection, a feed of a collection or
\* an entry of a feed, or changes the title, the link or the date of a stored
\* entry; and a step that changes the read flag of a stored entry is a
\* set_entry_read for that feed and that key, answered with 200 to the user
\* whose collection holds the feed.
C24_EntriesStayAndOnlyOwnerMarks ==
    [][\A u \in DOMAIN collections :
          /\ u \in DOMAIN collections'
          /\ \A url \in DOMAIN collections[u] :
                /\ url \in DOMAIN collections'[u]
                /\ \A k \in DOMAIN collections[u][url].entries :
                      /\ k \in DOMAIN collections'[u][url].entries
                      /\ LET old == collections[u][url].entries[k]
                             new == collections'[u][url].entries[k]
                         IN /\ new.title = old.title
                            /\ new.link = old.link
                            /\ new.pub_date = old.pub_date
                            /\ new.read # old.read =>
                                  /\ resp'.op = "set_entry_read"
                                  /\ resp'.status = 200
                                  /\ resp'.user = u
                                  /\ resp'.request.feed_url = url
                                  /\ resp'.request.entry_key = k
                                  /\ resp'.request.read = new.read]_vars

\* C24: user 1 has marked as read the entry that feed A held unread from the
\* start, after another request or refresh.
C24_Witness ==
    /\ resp.op = "set_entry_read"
    /\ resp.status = 200
    /\ resp.user = 1
    /\ resp.request.read
    /\ nops = 2
    /\ 1 \in DOMAIN collections
    /\ resp.request.feed_url \in DOMAIN collections[1]
    /\ collections[1][resp.request.feed_url].entries[resp.request.entry_key].read
    /\ collections = [SeededCollections EXCEPT
                         ![1][resp.request.feed_url].entries[resp.request.entry_key].read = TRUE]

\* ------------------------------------------------------------------ C25

\* A step in which add_feed, back from its fetch, has inserted a feed into
\* the collection of its user.
InsertedFeedStep ==
    /\ SubscribeStep
    /\ resp'.user \in DOMAIN collections
    /\ resp'.request.url \notin DOMAIN collections[resp'.user]
    /\ resp'.request.url \in DOMAIN collections'[resp'.user]

RestartStep == snap.server # "running" /\ snap'.server = "running"

C26_EveryFetchingTaskFinishes ==
    \A t \in Tasks :
        (task[t].pc \in {"af_fetch", "uf_fetch", "bg_fetch"}) ~> (task[t].pc = "idle")

\* ------------------------------------------------------------------ C39

\* A step in which the request `op` is answered 200.
AnsweredOk(op) == resp = NoResp /\ resp'.op = op /\ resp'.status = 200

\* C39: a set_entry_read answered 200 leaves the registry as it was but for
\* the read flag of the named entry of the caller's named feed, which is the
\* one of the request; the body is the request as JSON and reads back as the
\* request.
C39_SetEntryReadSetsOneFlag ==
    [][AnsweredOk("set_entry_read") =>
          LET request == resp'.request
              user_id == resp'.user
          IN /\ DOMAIN collections' = DOMAIN collections
             /\ \A u \in DOMAIN collections :
                   /\ DOMAIN collections'[u] = DOMAIN collections[u]
                   /\ \A url \in DOMAIN collections[u] :
                         /\ collections'[u][url].info = collections[u][url].info
                         /\ DOMAIN collections'[u][url].entries
                               = DOMAIN collections[u][url].entries
                         /\ \A k \in DOMAIN collections[u][url].entries :
                               LET old == collections[u][url].entries[k]
                                   new == collections'[u][url].entries[k]
                               IN IF /\ u = user_id
                                     /\ url = request.feed_url
                                     /\ k = request.entry_key
                                  THEN /\ new.read = request.read
                                       /\ new.title = old.title
                                       /\ new.link = old.link
                                       /\ new.pub_date = old.pub_date
                                  ELSE new = old
             /\ request.feed_url \in DOMAIN collections[user_id]
             /\ request.entry_key \in DOMAIN collections[user_id][request.feed_url].entries
             /\ resp'.body = SetEntryReadRequestAndResponse_serialize(request)
             /\ SetEntryReadRequestAndResponse_deserialize(resp'.body)
                   = [ok |-> TRUE, v |-> request]]_vars

\* C39: a set_entry_read that flipped the flag of one entry of a feed with
\* two entries has been answered 200, while another user holds the same feed.
C39_Witness ==
    /\ resp.op = "set_entry_read"
    /\ resp.status = 200
    /\ LET feed == collections[resp.user][resp.request.feed_url]
       IN /\ Cardinality(DOMAIN feed.entries) >= 2
          /\ \E k \in DOMAIN feed.entries : feed.entries[k].read # resp.request.read
          /\ feed.entries[resp.request.entry_key].read = resp.request.read
    /\ \E u \in DOMAIN collections :
          u # resp.user /\ resp.request.feed_url \in DOMAIN collections[u]

\* ------------------------------------------------------------------ C38

C34_AddFeedOfKnownUrlChangesNothing ==
    /\ [][\A t \in Handlers :
            (task[t].pc # "af_fetch" /\ task'[t].pc = "af_fetch")
               => \/ task'[t].user \notin DOMAIN collections
                  \/ task'[t].url \notin DOMAIN collections[task'[t].user]]_vars
    /\ [][(/\ AnsweredOk("add_feed")
           /\ resp'.user \in DOMAIN collections
           /\ resp'.request.url \in DOMAIN collections[resp'.user])
             => /\ collections' = collections
                /\ task' = task
                /\ writer' = writer]_vars

\* C34: the first request, add_feed of user 2 for feed A that they hold with
\* a read entry, has been answered; no fetch was started.
C34_Witness ==
    /\ nops = 1
    /\ resp.op = "add_feed"
    /\ resp.status = 200
    /\ resp.user = 2
    /\ resp.request.url = "A"
    /\ collections \in InitialCollections
    /\ \E k \in DOMAIN collections[2]["A"].entries : collections[2]["A"].entries[k].read
    /\ \A t \in Tasks : task[t].pc = "idle"
    /\ writer = NoTask

\* ------------------------------------------------------------------ C33

\* C33: when the first request of a run is an add_feed whose fetch failed, so
\* that the caller holds no feed under the url when it is answered, the
\* registry is the one that was loaded: no feed and no collection was made.
C33_FailedAddFeedLeavesRegistry ==
    (/\ nops = 1
     /\ resp.op = "add_feed"
     /\ resp.status = 200
     /\ \/ resp.user \notin DOMAIN collections
        \/ resp.request.url \notin DOMAIN collections[resp.user])
        => collections = snap.loaded

\* ------------------------------------------------------------------ C35

\* C35: in every /feeds answer that carries feeds_info, the feed of every
\* entry listed is a feed that feeds_info describes.
C35_EntriesOfDescribedFeeds ==
    (resp.op = "feeds" /\ resp.status = 200 /\ resp.body.feeds_info.some)
        => \A i \in 1..Len(resp.body.feed_entries) :
              resp.body.feed_entries[i].feed_url \in DOMAIN resp.body.feeds_info.v

\* ------------------------------------------------------------------ C36

\* C36: the list and the count that a view returns are the only ones that
\* the collection and the arguments allow, whatever the order in which the
\* maps are iterated.
C36_ViewIsDeterministic ==
    IsView =>
        get_sorted_com_entries_with_filter(call.args[1], call.args[2], call.args[3],
                                           call.args[4]) = {call.result}

\* ------------------------------------------------------------------ C37

\* C37: every step that changes the registry changes the value that the
\* registry hash is computed over.
C37_EveryChangeChangesTheHash ==
    [][collections' # collections => hash(collections') # hash(collections)]_vars

\* ------------------------------------------------------------------ C32

\* C32: whenever a tick of the snapshot worker finds the hash of the registry
\* equal to the recorded one and writes nothing, the file holds the registry
\* as it is: what load_or_default reads from it is the registry.
C32_SkippedTickMeansFileIsCurrent ==
    [][(TickStep /\ snap'.pc = "sleep") => load_or_default(snap.file) = collections]_vars

\* ------------------------------------------------------------------ C31

\* C31: every operation that a handler or the refresh worker has begun
\* finishes, and the registry lock it holds is released: no task waits for
\* the lock for ever, also when the handlers share one worker thread.
C31_NoTaskWaitsForEver ==
    /\ \A t \in Tasks : (task[t].pc # "idle") ~> (task[t].pc = "idle")
    /\ (writer # NoTask) ~> (writer = NoTask)

====
